---- MODULE Spec2Model ----
(***************************************************************************)
(* Energy-resource auction chaincodes of fabric-auction-contracts.         *)
(*                                                                         *)
(* The repository holds several deployable chaincodes that share one       *)
(* world-state layout idea (a resource record and an auction record per    *)
(* resource).  One chaincode is deployed on a channel; `impl` says which.  *)
(* Every invocation is one Fabric transaction: it reads the committed      *)
(* world state, collects a write set with PutState, and the write set is   *)
(* applied as a whole iff the invocation returns no error.                 *)
(***************************************************************************)
EXTENDS Naturals, Integers, Sequences, FiniteSets, TLC

VARIABLES impl, store, now, last, settlement,
          pending, versions, committed, validating

(* The state of the runtime that arbitrates overlapping transactions: the  *)
(* transactions simulated and not yet committed, the version of every key, *)
(* the transactions committed, and whether a commit validates the reads.   *)
runtime == <<pending, versions, committed, validating>>

vars == <<impl, store, now, last, settlement, runtime>>

(* ------------------------------ bounds --------------------------------- *)
MaxTime == 2
MaxDuration == 1
MaxAmount == 3
MaxPrice == 1
MaxBids == 2
MaxMeritPrice == 2
MaxPageSize == 3
MaxAuctions == 1
MaxTx == 3

ResourceIDs == {"r", "auction:r"}
Bidders == {"alice", "bob"}
Amounts == 1..MaxAmount
Prices == 1..MaxPrice
Durations == 1..MaxDuration
Volumes == {1}
Types == {"Generation"}

(* The resources of the merit-order listings. *)
MarketIDs == {"a", "b", "c", "d", "e"}
MarketPrices == 1..MaxMeritPrice
PageSizes == 1..MaxPageSize

(* --------------------------- error taxonomy ---------------------------- *)
(* The code returns fmt.Errorf messages; they are named here by the class  *)
(* of the message.                                                         *)
OK == "OK"
AlreadyExists == "AlreadyExists"
NotFound == "NotFound"
InvalidState == "InvalidState"
InvalidBid == "InvalidBid"

(* ------------------------------ world state ---------------------------- *)
(* A stored value is the JSON object written by json.Marshal, kept as a    *)
(* record whose fields are the JSON field names.                           *)
NoWrites == [k \in {} |-> 0]

Put(writes, key, value) ==
    [k \in DOMAIN writes \cup {key} |-> IF k = key THEN value ELSE writes[k]]

Apply(s, writes) ==
    [k \in DOMAIN s \cup DOMAIN writes |->
        IF k \in DOMAIN writes THEN writes[k] ELSE s[k]]

Exists(s, key) == key \in DOMAIN s

Fail(e) == [err |-> e, writes |-> NoWrites]

Success(w) == [err |-> OK, writes |-> w]

(* json.Unmarshal into EnergyResource: JSON fields that the struct does    *)
(* not declare are ignored and declared fields that are absent keep their  *)
(* zero value, so a value written from another struct decodes to zeros.    *)
UnmarshalResource(v) ==
    IF "price" \in DOMAIN v
    THEN [volume |-> v.volume, price |-> v.price, type |-> v.type,
          isAvailable |-> v.isAvailable, auctionStatus |-> v.auctionStatus]
    ELSE [volume |-> 0, price |-> 0, type |-> "",
          isAvailable |-> FALSE, auctionStatus |-> FALSE]

(* json.Unmarshal into the Second-Price EnergyAuction. *)
UnmarshalAuction(v) ==
    IF "bids" \in DOMAIN v
    THEN [resourceID |-> v.resourceID, deadline |-> v.deadline, bids |-> v.bids,
          winnerID |-> v.winnerID, winnerPrice |-> v.winnerPrice,
          status |-> v.status]
    ELSE [resourceID |-> "", deadline |-> 0, bids |-> <<>>,
          winnerID |-> "", winnerPrice |-> 0, status |-> FALSE]

(* ------------------------------ settlement ----------------------------- *)
(* sort.Slice with less(i,j) = Bids[i].BidPrice > Bids[j].BidPrice: the    *)
(* result is a permutation in descending price order; sort.Slice is not a  *)
(* stable sort, so the order of equal prices is any order.                 *)
(* The bids left in the order they were recorded in. *)
Unsorted(bids) == {bids}

IndexOrders(n) ==
    {p \in [1..n -> 1..n] : \A i, j \in 1..n : i # j => p[i] # p[j]}

SortSlice(bids) ==
    {[i \in 1..Len(bids) |-> bids[p[i]]] : p \in
        {q \in IndexOrders(Len(bids)) :
            \A i, j \in 1..Len(bids) :
                i < j => bids[q[i]].bidPrice >= bids[q[j]].bidPrice}}

(* ----------------- second_price_auction/contract.go -------------------- *)
SP_AuctionKey(resourceID) == "auction:" \o resourceID

SP_SubmitEnergyResource(s, resourceID, energyVolume, energyPrice, resourceType) ==
    IF Exists(s, resourceID)
    THEN Fail(AlreadyExists)
    ELSE Success(Put(NoWrites, resourceID,
            [volume |-> energyVolume, price |-> energyPrice,
             type |-> resourceType, isAvailable |-> TRUE,
             auctionStatus |-> FALSE]))

(* A deadline that forgets when the auction started. *)
DurationAlone(t, duration) == duration

(* StartAuction, line 115: Deadline = currentTimestamp.Seconds + duration. *)
SP_Deadline(t, duration) == t + duration

SP_StartAuction(s, resourceID, duration, t) ==
    IF ~Exists(s, resourceID) THEN Fail(NotFound)
    ELSE LET resource == UnmarshalResource(s[resourceID]) IN
         IF resource.auctionStatus THEN Fail(InvalidState)
         ELSE IF ~resource.isAvailable THEN Fail(InvalidState)
         ELSE LET auction == [resourceID |-> resourceID,
                              deadline |-> SP_Deadline(t, duration), bids |-> <<>>,
                              winnerID |-> "", winnerPrice |-> 0,
                              status |-> TRUE]
                  w1 == Put(NoWrites, resourceID,
                            [resource EXCEPT !.auctionStatus = TRUE])
              IN Success(Put(w1, SP_AuctionKey(resourceID), auction))

(* EndAuction: the set of outcomes, one per order sort.Slice may leave. *)
SP_EndAuction(s, resourceID, t) ==
    LET auctionID == SP_AuctionKey(resourceID) IN
    IF ~Exists(s, auctionID) THEN {Fail(NotFound)}
    ELSE LET auction == UnmarshalAuction(s[auctionID]) IN
         IF ~auction.status THEN {Fail(InvalidState)}
         ELSE IF auction.deadline > t THEN {Fail(InvalidState)}
         ELSE IF ~Exists(s, auction.resourceID) THEN {Fail(NotFound)}
         ELSE LET resource == UnmarshalResource(s[auction.resourceID]) IN
              { LET settled ==
                      IF Len(sorted) > 0
                      THEN [auction EXCEPT
                              !.bids = sorted, !.status = FALSE,
                              !.winnerID = sorted[1].bidder,
                              !.winnerPrice = IF Len(sorted) > 1
                                              THEN sorted[2].bidPrice
                                              ELSE sorted[1].bidPrice]
                      ELSE [auction EXCEPT !.bids = sorted, !.status = FALSE]
                    res == [resource EXCEPT
                              !.auctionStatus = FALSE,
                              !.isAvailable = IF Len(sorted) > 0 THEN FALSE
                                              ELSE resource.isAvailable]
                    w1 == Put(NoWrites, auction.resourceID, res)
                IN Success(Put(w1, auctionID, settled))
                : sorted \in SortSlice(auction.bids) }

(* An expiry that closes the auction record and leaves the resource as it  *)
(* was.                                                                    *)
CloseAuctionOnly(s, resourceID, t) ==
    {[run EXCEPT !.writes =
          [k \in DOMAIN run.writes \cap {SP_AuctionKey(resourceID)} |->
              run.writes[k]]] :
     run \in SP_EndAuction(s, resourceID, t)}

(* Bid, lines 173-175: a bid that arrives after the deadline runs          *)
(* EndAuction and returns its result.                                      *)
SP_LazyExpiry(s, resourceID, t) == SP_EndAuction(s, resourceID, t)

(* The new bid put in front of the recorded ones. *)
PrependBid(bids, bid) == <<bid>> \o bids

(* Bid, line 190: auction.Bids = append(auction.Bids, bid). *)
SP_AppendBid(bids, bid) == Append(bids, bid)

SP_Bid(s, resourceID, bidAmount, clientID, t) ==
    LET auctionID == SP_AuctionKey(resourceID) IN
    IF ~Exists(s, auctionID) THEN {Fail(NotFound)}
    ELSE IF ~Exists(s, resourceID) THEN {Fail(NotFound)}
    ELSE LET auction == UnmarshalAuction(s[auctionID])
             resource == UnmarshalResource(s[resourceID]) IN
         IF bidAmount <= resource.price THEN {Fail(InvalidBid)}
         ELSE IF ~auction.status THEN {Fail(InvalidState)}
         ELSE IF auction.deadline < t THEN SP_LazyExpiry(s, resourceID, t)
         ELSE LET bid == [resourceID |-> resourceID, bidder |-> clientID,
                          bidPrice |-> bidAmount, timestamp |-> t]
              IN {Success(Put(NoWrites, auctionID,
                     [auction EXCEPT !.bids = SP_AppendBid(auction.bids, bid)]))}

(* GetAuction returns the marshalled auction, bids blanked before the deadline. *)
SP_GetAuction(s, resourceID, t) ==
    LET auctionID == SP_AuctionKey(resourceID) IN
    IF ~Exists(s, auctionID) THEN [err |-> NotFound, out |-> <<>>]
    ELSE LET auction == UnmarshalAuction(s[auctionID]) IN
         [err |-> OK,
          out |-> <<IF auction.deadline > t
                    THEN [auction EXCEPT !.bids = <<>>] ELSE auction>>]

(* ------------ second_price_auction_optimized/contract.go --------------- *)
(* First chaincode of the file (lines 1-400): composite keys.  The shim's  *)
(* CreateCompositeKey(objectType, attrs) is U+0000, objectType, U+0000 and *)
(* each attribute followed by U+0000; U+0000 is written "\\0" here.        *)
NUL == "\\0"

resourceObjectType == "resource"

auctionObjectType == "auction"

createCompositeKey(objectType, objectAttribute) ==
    NUL \o objectType \o NUL \o objectAttribute \o NUL

(* The existence check dropped: no identifier is ever taken. *)
NeverExists(s, resourceID) == FALSE

(* checkResourceExists, lines 310-321. *)
SPO_checkResourceExists(s, resourceID) ==
    Exists(s, createCompositeKey(resourceObjectType, resourceID))

SPO_SubmitEnergyResource(s, resourceID, energyVolume, energyPrice, resourceType) ==
    IF SPO_checkResourceExists(s, resourceID)
    THEN Fail(AlreadyExists)
    ELSE Success(Put(NoWrites, createCompositeKey(resourceObjectType, resourceID),
            [volume |-> energyVolume, price |-> energyPrice,
             type |-> resourceType, isAvailable |-> TRUE,
             auctionStatus |-> FALSE]))

(* GetResource returns the record as fetchResource decoded it. *)
SPO_GetResource(s, resourceID) ==
    LET resourceKey == createCompositeKey(resourceObjectType, resourceID) IN
    IF ~Exists(s, resourceKey) THEN [err |-> NotFound, out |-> <<>>]
    ELSE [err |-> OK, out |-> <<UnmarshalResource(s[resourceKey])>>]

SPO_StartAuction(s, resourceID, duration, t) ==
    LET resourceKey == createCompositeKey(resourceObjectType, resourceID)
        auctionKey == createCompositeKey(auctionObjectType, resourceID) IN
    IF ~Exists(s, resourceKey) THEN Fail(NotFound)
    ELSE LET resource == UnmarshalResource(s[resourceKey]) IN
         IF resource.auctionStatus THEN Fail(InvalidState)
         ELSE IF ~resource.isAvailable THEN Fail(InvalidState)
         ELSE LET auction == [resourceID |-> resourceID,
                              deadline |-> t + duration, bids |-> <<>>,
                              winnerID |-> "", winnerPrice |-> 0,
                              status |-> TRUE]
                  w1 == Put(NoWrites, resourceKey,
                            [resource EXCEPT !.auctionStatus = TRUE])
              IN Success(Put(w1, auctionKey, auction))

(* EndAuction, lines 263-280: the auction record after settlement, sorted  *)
(* being auction.Bids as sort.Slice left them.                             *)
(* A first-price settlement, in which the winner pays its own bid: the     *)
(* rule Second-Price settlement must differ from.                          *)
FirstPriceSettle(auction, sorted) ==
    IF Len(sorted) > 0
    THEN [auction EXCEPT
            !.bids = sorted, !.status = FALSE,
            !.winnerID = sorted[1].bidder,
            !.winnerPrice = sorted[1].bidPrice]
    ELSE [auction EXCEPT !.bids = sorted, !.status = FALSE]

SPO_Settle(auction, sorted) ==
    IF Len(sorted) > 0
    THEN [auction EXCEPT
            !.bids = sorted, !.status = FALSE,
            !.winnerID = sorted[1].bidder,
            !.winnerPrice = IF Len(sorted) > 1 THEN sorted[2].bidPrice
                            ELSE sorted[1].bidPrice]
    ELSE [auction EXCEPT !.bids = sorted, !.status = FALSE]

SPO_EndAuction(s, resourceID, t) ==
    LET auctionKey == createCompositeKey(auctionObjectType, resourceID)
        resourceKey == createCompositeKey(resourceObjectType, resourceID) IN
    IF ~Exists(s, auctionKey) THEN {Fail(NotFound)}
    ELSE LET auction == UnmarshalAuction(s[auctionKey])
             fetchKey == createCompositeKey(resourceObjectType, auction.resourceID) IN
         IF ~auction.status THEN {Fail(InvalidState)}
         ELSE IF auction.deadline > t THEN {Fail(InvalidState)}
         ELSE IF ~Exists(s, fetchKey) THEN {Fail(NotFound)}
         ELSE LET resource == UnmarshalResource(s[fetchKey]) IN
              { LET res == [resource EXCEPT
                              !.auctionStatus = FALSE,
                              !.isAvailable = IF Len(sorted) > 0 THEN FALSE
                                              ELSE resource.isAvailable]
                    w1 == Put(NoWrites, auctionKey, SPO_Settle(auction, sorted))
                IN Success(Put(w1, resourceKey, res))
                : sorted \in SortSlice(auction.bids) }

SPO_Bid(s, resourceID, bidAmount, clientID, t) ==
    LET auctionKey == createCompositeKey(auctionObjectType, resourceID)
        resourceKey == createCompositeKey(resourceObjectType, resourceID) IN
    IF ~Exists(s, auctionKey) THEN {Fail(NotFound)}
    ELSE IF ~Exists(s, resourceKey) THEN {Fail(NotFound)}
    ELSE LET auction == UnmarshalAuction(s[auctionKey])
             resource == UnmarshalResource(s[resourceKey]) IN
         IF bidAmount <= resource.price THEN {Fail(InvalidBid)}
         ELSE IF ~auction.status THEN {Fail(InvalidState)}
         ELSE IF auction.deadline < t THEN SPO_EndAuction(s, resourceID, t)
         ELSE LET bid == [resourceID |-> resourceID, bidder |-> clientID,
                          bidPrice |-> bidAmount, timestamp |-> t]
              IN {Success(Put(NoWrites, auctionKey,
                     [auction EXCEPT !.bids = Append(auction.bids, bid)]))}

SPO_GetAuction(s, resourceID, t) ==
    LET auctionKey == createCompositeKey(auctionObjectType, resourceID) IN
    IF ~Exists(s, auctionKey) THEN [err |-> NotFound, out |-> <<>>]
    ELSE LET auction == UnmarshalAuction(s[auctionKey]) IN
         [err |-> OK,
          out |-> <<IF auction.deadline > t
                    THEN [auction EXCEPT !.bids = <<>>] ELSE auction>>]

(* Second chaincode of the file (lines 402-771): flat keys. *)
SPF_AuctionKey(resourceID) == "auction:" \o resourceID

SPF_SubmitEnergyResource(s, resourceID, energyVolume, energyPrice, resourceType) ==
    IF Exists(s, resourceID)
    THEN Fail(AlreadyExists)
    ELSE Success(Put(NoWrites, resourceID,
            [volume |-> energyVolume, price |-> energyPrice,
             type |-> resourceType, isAvailable |-> TRUE,
             auctionStatus |-> FALSE]))

SPF_StartAuction(s, resourceID, duration, t) ==
    IF ~Exists(s, resourceID) THEN Fail(NotFound)
    ELSE LET resource == UnmarshalResource(s[resourceID]) IN
         IF resource.auctionStatus THEN Fail(InvalidState)
         ELSE IF ~resource.isAvailable THEN Fail(InvalidState)
         ELSE LET auction == [resourceID |-> resourceID,
                              deadline |-> t + duration, bids |-> <<>>,
                              winnerID |-> "", winnerPrice |-> 0,
                              status |-> TRUE]
                  w1 == Put(NoWrites, resourceID,
                            [resource EXCEPT !.auctionStatus = TRUE])
              IN Success(Put(w1, SPF_AuctionKey(resourceID), auction))

SPF_EndAuction(s, resourceID, t) ==
    LET auctionID == SPF_AuctionKey(resourceID) IN
    IF ~Exists(s, auctionID) THEN {Fail(NotFound)}
    ELSE LET auction == UnmarshalAuction(s[auctionID]) IN
         IF ~auction.status THEN {Fail(InvalidState)}
         ELSE IF auction.deadline > t THEN {Fail(InvalidState)}
         ELSE IF ~Exists(s, auction.resourceID) THEN {Fail(NotFound)}
         ELSE LET resource == UnmarshalResource(s[auction.resourceID]) IN
              { LET settled ==
                      IF Len(sorted) > 0
                      THEN [auction EXCEPT
                              !.bids = sorted, !.status = FALSE,
                              !.winnerID = sorted[1].bidder,
                              !.winnerPrice = IF Len(sorted) > 1
                                              THEN sorted[2].bidPrice
                                              ELSE sorted[1].bidPrice]
                      ELSE [auction EXCEPT !.bids = sorted, !.status = FALSE]
                    res == [resource EXCEPT
                              !.auctionStatus = FALSE,
                              !.isAvailable = IF Len(sorted) > 0 THEN FALSE
                                              ELSE resource.isAvailable]
                    w1 == Put(NoWrites, auction.resourceID, res)
                IN Success(Put(w1, auctionID, settled))
                : sorted \in SortSlice(auction.bids) }

SPF_Bid(s, resourceID, bidAmount, clientId, t) ==
    LET auctionID == SPF_AuctionKey(resourceID) IN
    IF ~Exists(s, auctionID) THEN {Fail(NotFound)}
    ELSE LET auction == UnmarshalAuction(s[auctionID]) IN
         IF ~auction.status THEN {Fail(InvalidState)}
         ELSE IF auction.deadline < t THEN SPF_EndAuction(s, resourceID, t)
         ELSE LET bid == [resourceID |-> resourceID, bidder |-> clientId,
                          bidPrice |-> bidAmount, timestamp |-> t]
              IN {Success(Put(NoWrites, auctionID,
                     [auction EXCEPT !.bids = Append(auction.bids, bid)]))}

(* Before the deadline a copy with bids and winner blanked is returned,    *)
(* from the deadline on the stored bytes as they are.                      *)
SPF_GetAuction(s, resourceID, t) ==
    LET auctionID == SPF_AuctionKey(resourceID) IN
    IF ~Exists(s, auctionID) THEN [err |-> NotFound, out |-> <<>>]
    ELSE LET auction == UnmarshalAuction(s[auctionID]) IN
         [err |-> OK,
          out |-> <<IF auction.deadline > t
                    THEN [auction EXCEPT !.bids = <<>>, !.winnerID = "",
                                         !.winnerPrice = 0]
                    ELSE s[auctionID]>>]

(* json.Unmarshal into the English EnergyAuction. *)
UnmarshalEnglish(v) ==
    IF "highestBid" \in DOMAIN v
    THEN [auctionID |-> v.auctionID, resourceID |-> v.resourceID,
          deadline |-> v.deadline, highestBid |-> v.highestBid,
          highestBidder |-> v.highestBidder, status |-> v.status]
    ELSE [auctionID |-> "", resourceID |-> "", deadline |-> 0,
          highestBid |-> 0, highestBidder |-> "", status |-> FALSE]

(* ---------------- english_auction/auction_contract.go ------------------ *)
EngA_AuctionKey(resourceID) == "auction:" \o resourceID

EngA_SubmitEnergyResource(s, resourceID, energyVolume, energyPrice, resourceType) ==
    IF Exists(s, resourceID)
    THEN Fail(AlreadyExists)
    ELSE Success(Put(NoWrites, resourceID,
            [volume |-> energyVolume, price |-> energyPrice,
             type |-> resourceType, isAvailable |-> TRUE,
             auctionStatus |-> FALSE]))

EngA_StartAuction(s, resourceID, duration, t) ==
    IF ~Exists(s, resourceID) THEN Fail(NotFound)
    ELSE LET resource == UnmarshalResource(s[resourceID]) IN
         IF resource.auctionStatus THEN Fail(InvalidState)
         ELSE IF ~resource.isAvailable THEN Fail(InvalidState)
         ELSE LET auction == [auctionID |-> "", resourceID |-> resourceID,
                              deadline |-> t + duration, highestBid |-> 0,
                              highestBidder |-> "", status |-> TRUE]
                  w1 == Put(NoWrites, resourceID,
                            [resource EXCEPT !.auctionStatus = TRUE])
              IN Success(Put(w1, EngA_AuctionKey(resourceID), auction))

EngA_EndAuction(s, resourceID, t) ==
    LET auctionID == EngA_AuctionKey(resourceID) IN
    IF ~Exists(s, auctionID) THEN Fail(NotFound)
    ELSE LET auction == UnmarshalEnglish(s[auctionID]) IN
         IF ~auction.status THEN Fail(InvalidState)
         ELSE IF auction.deadline > t THEN Fail(InvalidState)
         ELSE LET closed == [auction EXCEPT !.status = FALSE]
                  w1 == Put(NoWrites, auctionID, closed) IN
              IF ~Exists(s, auction.resourceID) THEN Fail(NotFound)
              ELSE LET resource == UnmarshalResource(s[auction.resourceID])
                       res == [resource EXCEPT
                                 !.auctionStatus = FALSE,
                                 !.isAvailable =
                                     IF auction.highestBidder # "" THEN FALSE
                                     ELSE resource.isAvailable]
                       w2 == Put(w1, auction.resourceID, res)
                   IN Success(Put(w2, auctionID, closed))

(* Bid, line 228: the comparison with the current highest bid. *)
(* The comparison with the tie let through: a bid equal to the highest is  *)
(* not too low.                                                            *)
BidStrictlyBelow(bidAmount, auction) == bidAmount < auction.highestBid

EngA_BidTooLow(bidAmount, auction) == bidAmount <= auction.highestBid

EngA_Bid(s, resourceID, bidAmount, clientId, t) ==
    LET auctionID == EngA_AuctionKey(resourceID) IN
    IF ~Exists(s, auctionID) THEN Fail(NotFound)
    ELSE IF ~Exists(s, resourceID) THEN Fail(NotFound)
    ELSE LET resource == UnmarshalResource(s[resourceID])
             auction == UnmarshalEnglish(s[auctionID]) IN
         IF ~auction.status THEN Fail(InvalidState)
         ELSE IF auction.deadline < t THEN EngA_EndAuction(s, resourceID, t)
         ELSE IF bidAmount <= resource.price THEN Fail(InvalidBid)
         ELSE IF EngA_BidTooLow(bidAmount, auction) THEN Fail(InvalidBid)
         ELSE Success(Put(NoWrites, auctionID,
                  [auction EXCEPT !.highestBid = bidAmount,
                                  !.highestBidder = clientId]))

EngA_GetAuction(s, resourceID) ==
    LET auctionID == EngA_AuctionKey(resourceID) IN
    IF ~Exists(s, auctionID) THEN [err |-> NotFound, out |-> <<>>]
    ELSE [err |-> OK, out |-> <<s[auctionID]>>]

(* ------------------- english_auction/contract.go.go -------------------- *)
EngB_AuctionKey(resourceID) == "auction:" \o resourceID

EngB_SubmitEnergyResource(s, resourceID, energyVolume, energyPrice, resourceType) ==
    IF Exists(s, resourceID)
    THEN Fail(AlreadyExists)
    ELSE Success(Put(NoWrites, resourceID,
            [volume |-> energyVolume, price |-> energyPrice,
             type |-> resourceType, isAvailable |-> TRUE,
             auctionStatus |-> FALSE]))

(* The availability test dropped: every resource may be auctioned again.   *)
AlwaysAvailable(resource) == FALSE

(* StartAuction, line 103: the resource has been sold. *)
EngB_NotAvailable(resource) == ~resource.isAvailable

EngB_StartAuction(s, resourceID, duration, t) ==
    IF ~Exists(s, resourceID) THEN Fail(NotFound)
    ELSE LET resource == UnmarshalResource(s[resourceID]) IN
         IF resource.auctionStatus THEN Fail(InvalidState)
         ELSE IF EngB_NotAvailable(resource) THEN Fail(InvalidState)
         ELSE LET auction == [auctionID |-> "", resourceID |-> resourceID,
                              deadline |-> t + duration, highestBid |-> 0,
                              highestBidder |-> "", status |-> TRUE]
                  w1 == Put(NoWrites, resourceID,
                            [resource EXCEPT !.auctionStatus = TRUE])
              IN Success(Put(w1, EngB_AuctionKey(resourceID), auction))

(* The expiry test dropped: no auction is ever too young to close.         *)
NeverTooEarly(auction, t) == FALSE

(* EndAuction, line 200: the deadline has not been reached. *)
EngB_NotYetExpired(auction, t) == auction.deadline > t

EngB_EndAuction(s, resourceID, t) ==
    LET auctionID == EngB_AuctionKey(resourceID) IN
    IF ~Exists(s, auctionID) THEN Fail(NotFound)
    ELSE LET auction == UnmarshalEnglish(s[auctionID]) IN
         IF ~auction.status THEN Fail(InvalidState)
         ELSE IF EngB_NotYetExpired(auction, t) THEN Fail(InvalidState)
         ELSE LET closed == [auction EXCEPT !.status = FALSE]
                  w1 == Put(NoWrites, auctionID, closed) IN
              IF ~Exists(s, resourceID) THEN Fail(NotFound)
              ELSE LET resource == UnmarshalResource(s[resourceID])
                       res == [resource EXCEPT
                                 !.auctionStatus = FALSE,
                                 !.isAvailable =
                                     IF auction.highestBidder # "" THEN FALSE
                                     ELSE resource.isAvailable]
                       w2 == Put(w1, resourceID, res)
                   IN Success(Put(w2, auctionID, closed))

EngB_Bid(s, resourceID, bidAmount, clientId, t) ==
    LET auctionID == EngB_AuctionKey(resourceID) IN
    IF ~Exists(s, resourceID) THEN Fail(NotFound)
    ELSE IF ~Exists(s, auctionID) THEN Fail(NotFound)
    ELSE LET resource == UnmarshalResource(s[resourceID])
             auction == UnmarshalEnglish(s[auctionID]) IN
         IF ~auction.status THEN Fail(InvalidState)
         ELSE IF auction.deadline < t THEN EngB_EndAuction(s, resourceID, t)
         ELSE IF bidAmount <= resource.price THEN Fail(InvalidBid)
         ELSE IF bidAmount <= auction.highestBid THEN Fail(InvalidBid)
         ELSE Success(Put(NoWrites, auctionID,
                  [auction EXCEPT !.highestBid = bidAmount,
                                  !.highestBidder = clientId]))

EngB_GetAuction(s, resourceID) ==
    LET auctionID == EngB_AuctionKey(resourceID) IN
    IF ~Exists(s, auctionID) THEN [err |-> NotFound, out |-> <<>>]
    ELSE [err |-> OK, out |-> <<s[auctionID]>>]

(* ---------------- english_auction_optimized/contract.go ---------------- *)
(* The chaincode builds a composite key in each transaction function and   *)
(* hands it to fetchResource, fetchAuction, storeResource and storeAuction,*)
(* which build a composite key of it once more.                            *)
StorageFailure == "StorageFailure"

(* The strings of the model that contain U+0000. *)
CompositeKeys ==
    {createCompositeKey(ty, id) :
        ty \in {resourceObjectType, auctionObjectType},
        id \in ResourceIDs \cup MarketIDs}

(* stub.CreateCompositeKey refuses an attribute that contains U+0000 and   *)
(* returns "" with an error; the helpers drop the error and keep the "".   *)
CreateCompositeKey(objectType, attribute) ==
    IF attribute \in CompositeKeys THEN ""
    ELSE createCompositeKey(objectType, attribute)

(* stub.PutState refuses the empty key. *)
EngO_PutState(writes, key, value) ==
    IF key = "" THEN [err |-> StorageFailure, writes |-> writes]
    ELSE [err |-> OK, writes |-> Put(writes, key, value)]

EngO_storeResource(writes, resourceID, resource) ==
    EngO_PutState(writes, CreateCompositeKey(resourceObjectType, resourceID),
                  resource)

EngO_storeAuction(writes, auctionID, auction) ==
    EngO_PutState(writes, CreateCompositeKey(auctionObjectType, auctionID),
                  auction)

(* stub.GetState finds nothing at a key that was never written, the empty  *)
(* key included.                                                           *)
EngO_fetchResource(s, resourceID) ==
    LET resourceKey == CreateCompositeKey(resourceObjectType, resourceID) IN
    IF ~Exists(s, resourceKey) THEN [err |-> NotFound, val |-> <<>>]
    ELSE [err |-> OK, val |-> <<UnmarshalResource(s[resourceKey])>>]

EngO_fetchAuction(s, auctionID) ==
    LET auctionKey == CreateCompositeKey(auctionObjectType, auctionID) IN
    IF ~Exists(s, auctionKey) THEN [err |-> NotFound, val |-> <<>>]
    ELSE [err |-> OK, val |-> <<UnmarshalEnglish(s[auctionKey])>>]

EngO_SubmitEnergyResource(s, resourceID, energyVolume, energyPrice, resourceType) ==
    LET compositeKey == CreateCompositeKey(resourceObjectType, resourceID) IN
    IF compositeKey = "" THEN Fail(StorageFailure)
    ELSE IF Exists(s, compositeKey) THEN Fail(AlreadyExists)
    ELSE LET stored == EngO_storeResource(NoWrites, compositeKey,
                          [volume |-> energyVolume, price |-> energyPrice,
                           type |-> resourceType, isAvailable |-> TRUE,
                           auctionStatus |-> FALSE])
         IN IF stored.err # OK THEN Fail(stored.err)
            ELSE Success(stored.writes)

EngO_GetResource(s, resourceID) ==
    LET compositeKey == CreateCompositeKey(resourceObjectType, resourceID) IN
    IF ~Exists(s, compositeKey) THEN [err |-> NotFound, out |-> <<>>]
    ELSE [err |-> OK, out |-> <<s[compositeKey]>>]

EngO_StartAuction(s, resourceID, duration, t) ==
    LET resourceKey == CreateCompositeKey(resourceObjectType, resourceID)
        auctionKey == CreateCompositeKey(auctionObjectType, resourceID)
        fetched == EngO_fetchResource(s, resourceKey) IN
    IF fetched.err # OK THEN Fail(fetched.err)
    ELSE LET resource == fetched.val[1] IN
         IF resource.auctionStatus THEN Fail(InvalidState)
         ELSE IF ~resource.isAvailable THEN Fail(InvalidState)
         ELSE LET auction == [auctionID |-> "", resourceID |-> resourceID,
                              deadline |-> t + duration, highestBid |-> 0,
                              highestBidder |-> "", status |-> TRUE]
                  w1 == EngO_storeResource(NoWrites, resourceKey,
                            [resource EXCEPT !.auctionStatus = TRUE]).writes
                  stored == EngO_storeAuction(w1, auctionKey, auction)
              IN IF stored.err # OK THEN Fail(stored.err)
                 ELSE Success(stored.writes)

EngO_GetAuction(s, resourceID) ==
    LET auctionKey == CreateCompositeKey(auctionObjectType, resourceID) IN
    IF ~Exists(s, auctionKey) THEN [err |-> NotFound, out |-> <<>>]
    ELSE [err |-> OK, out |-> <<s[auctionKey]>>]

EngO_EndAuction(s, resourceID, t) ==
    LET resourceKey == CreateCompositeKey(resourceObjectType, resourceID)
        auctionKey == CreateCompositeKey(auctionObjectType, resourceID)
        fetchedAuction == EngO_fetchAuction(s, auctionKey) IN
    IF fetchedAuction.err # OK THEN Fail(fetchedAuction.err)
    ELSE LET auction == fetchedAuction.val[1] IN
         IF ~auction.status THEN Fail(InvalidState)
         ELSE IF auction.deadline > t THEN Fail(InvalidState)
         ELSE LET closed == [auction EXCEPT !.status = FALSE]
                  w1 == EngO_storeAuction(NoWrites, auctionKey, closed).writes
                  fetched == EngO_fetchResource(s, resourceKey) IN
              IF fetched.err # OK THEN Fail(fetched.err)
              ELSE LET resource == fetched.val[1]
                       res == [resource EXCEPT
                                 !.auctionStatus = FALSE,
                                 !.isAvailable =
                                     IF auction.highestBidder # "" THEN FALSE
                                     ELSE resource.isAvailable]
                       w2 == EngO_storeResource(w1, resourceKey, res).writes
                       stored == EngO_storeAuction(w2, auctionKey, closed)
                   IN IF stored.err # OK THEN Fail(stored.err)
                      ELSE Success(stored.writes)

EngO_Bid(s, resourceID, bidAmount, clientId, t) ==
    LET resourceKey == CreateCompositeKey(resourceObjectType, resourceID)
        auctionKey == CreateCompositeKey(auctionObjectType, resourceID)
        fetched == EngO_fetchResource(s, resourceKey)
        fetchedAuction == EngO_fetchAuction(s, auctionKey) IN
    IF fetched.err # OK THEN Fail(fetched.err)
    ELSE IF fetchedAuction.err # OK THEN Fail(fetchedAuction.err)
    ELSE LET resource == fetched.val[1]
             auction == fetchedAuction.val[1] IN
         IF ~auction.status THEN Fail(InvalidState)
         ELSE IF auction.deadline < t THEN EngO_EndAuction(s, resourceID, t)
         ELSE IF bidAmount <= resource.price THEN Fail(InvalidBid)
         ELSE IF bidAmount <= auction.highestBid THEN Fail(InvalidBid)
         ELSE LET stored == EngO_storeAuction(NoWrites, auctionKey,
                               [auction EXCEPT !.highestBid = bidAmount,
                                               !.highestBidder = clientId])
              IN IF stored.err # OK THEN Fail(stored.err)
                 ELSE Success(stored.writes)

(* ------------------------- auction_contract.go ------------------------- *)
(* The first chaincode: the caller names the auction's key, the resource   *)
(* record has no isAvailable/auctionStatus, Bid does not read the resource. *)
Legacy_SubmitEnergyResource(s, resourceID, energyVolume, energyPrice, resourceType) ==
    IF Exists(s, resourceID)
    THEN Fail(AlreadyExists)
    ELSE Success(Put(NoWrites, resourceID,
            [volume |-> energyVolume, price |-> energyPrice,
             type |-> resourceType]))

Legacy_StartAuction(s, auctionID, resourceID, duration, t) ==
    IF ~Exists(s, resourceID) THEN Fail(NotFound)
    ELSE Success(Put(NoWrites, auctionID,
            [auctionID |-> auctionID, resourceID |-> resourceID,
             deadline |-> t + duration, highestBid |-> 0,
             highestBidder |-> "", status |-> TRUE]))

Legacy_Bid(s, auctionID, bidAmount, clientId, t) ==
    IF ~Exists(s, auctionID) THEN Fail(NotFound)
    ELSE LET auction == UnmarshalEnglish(s[auctionID]) IN
         IF ~auction.status THEN Fail(InvalidState)
         ELSE IF auction.deadline < t THEN Fail(InvalidState)
         ELSE IF bidAmount <= auction.highestBid THEN Fail(InvalidBid)
         ELSE Success(Put(NoWrites, auctionID,
                  [auction EXCEPT !.highestBid = bidAmount,
                                  !.highestBidder = clientId]))

Legacy_EndAuction(s, auctionID, t) ==
    IF ~Exists(s, auctionID) THEN Fail(NotFound)
    ELSE LET auction == UnmarshalEnglish(s[auctionID]) IN
         IF ~auction.status THEN Fail(InvalidState)
         ELSE IF auction.deadline > t THEN Fail(InvalidState)
         ELSE IF auction.highestBidder = "" THEN Fail(InvalidState)
         ELSE Success(Put(NoWrites, auctionID,
                  [auction EXCEPT !.status = FALSE]))

Legacy_GetAuction(s, auctionID) ==
    IF ~Exists(s, auctionID) THEN [err |-> NotFound, out |-> <<>>]
    ELSE [err |-> OK, out |-> <<s[auctionID]>>]

(* ------------------------------ the machine ---------------------------- *)
(* The chaincode deployed on the channel. *)
Impls == {"legacy", "englishA", "englishB", "englishOpt",
          "secondPrice", "secondPriceOpt", "secondPriceOptFlat"}

EnglishImpls == {"englishA", "englishB", "englishOpt"}

SecondPriceImpls == {"secondPrice", "secondPriceOpt", "secondPriceOptFlat"}

(* The key an invocation's resourceID argument reads the resource at, and  *)
(* the key it reads the auction at.                                        *)
ResourceKey(i, resourceID) ==
    IF i \in {"secondPriceOpt", "englishOpt"}
    THEN createCompositeKey(resourceObjectType, resourceID)
    ELSE resourceID

AuctionKey(i, id) ==
    CASE i = "legacy" -> id
      [] i = "englishA" -> EngA_AuctionKey(id)
      [] i = "englishB" -> EngB_AuctionKey(id)
      [] i = "englishOpt" -> createCompositeKey(auctionObjectType, id)
      [] i = "secondPrice" -> SP_AuctionKey(id)
      [] i = "secondPriceOpt" -> createCompositeKey(auctionObjectType, id)
      [] i = "secondPriceOptFlat" -> SPF_AuctionKey(id)

(* Each operation of the deployed chaincode: the set of outcomes           *)
(* [err, writes] of one invocation on world state s at transaction time t. *)
TxSubmit(i, s, id, v, p, ty) ==
    CASE i = "legacy" -> {Legacy_SubmitEnergyResource(s, id, v, p, ty)}
      [] i = "englishA" -> {EngA_SubmitEnergyResource(s, id, v, p, ty)}
      [] i = "englishB" -> {EngB_SubmitEnergyResource(s, id, v, p, ty)}
      [] i = "englishOpt" -> {EngO_SubmitEnergyResource(s, id, v, p, ty)}
      [] i = "secondPrice" -> {SP_SubmitEnergyResource(s, id, v, p, ty)}
      [] i = "secondPriceOpt" -> {SPO_SubmitEnergyResource(s, id, v, p, ty)}
      [] i = "secondPriceOptFlat" -> {SPF_SubmitEnergyResource(s, id, v, p, ty)}

(* The first chaincode's StartAuction takes the auction's key as well. *)
TxStart(i, s, auctionID, id, d, t) ==
    CASE i = "legacy" -> {Legacy_StartAuction(s, auctionID, id, d, t)}
      [] i = "englishA" -> {EngA_StartAuction(s, id, d, t)}
      [] i = "englishB" -> {EngB_StartAuction(s, id, d, t)}
      [] i = "englishOpt" -> {EngO_StartAuction(s, id, d, t)}
      [] i = "secondPrice" -> {SP_StartAuction(s, id, d, t)}
      [] i = "secondPriceOpt" -> {SPO_StartAuction(s, id, d, t)}
      [] i = "secondPriceOptFlat" -> {SPF_StartAuction(s, id, d, t)}

TxBid(i, s, id, a, c, t) ==
    CASE i = "legacy" -> {Legacy_Bid(s, id, a, c, t)}
      [] i = "englishA" -> {EngA_Bid(s, id, a, c, t)}
      [] i = "englishB" -> {EngB_Bid(s, id, a, c, t)}
      [] i = "englishOpt" -> {EngO_Bid(s, id, a, c, t)}
      [] i = "secondPrice" -> SP_Bid(s, id, a, c, t)
      [] i = "secondPriceOpt" -> SPO_Bid(s, id, a, c, t)
      [] i = "secondPriceOptFlat" -> SPF_Bid(s, id, a, c, t)

TxEnd(i, s, id, t) ==
    CASE i = "legacy" -> {Legacy_EndAuction(s, id, t)}
      [] i = "englishA" -> {EngA_EndAuction(s, id, t)}
      [] i = "englishB" -> {EngB_EndAuction(s, id, t)}
      [] i = "englishOpt" -> {EngO_EndAuction(s, id, t)}
      [] i = "secondPrice" -> SP_EndAuction(s, id, t)
      [] i = "secondPriceOpt" -> SPO_EndAuction(s, id, t)
      [] i = "secondPriceOptFlat" -> SPF_EndAuction(s, id, t)

(* ------------------------- store write failures ----------------------- *)
(* stub.PutState may return an error; broken is the set of keys for which  *)
(* it does so during one invocation.  A failed PutState adds nothing to    *)
(* the write set of the transaction.                                       *)
PutState(broken, writes, key, value) ==
    IF key \in broken THEN [err |-> StorageFailure, writes |-> writes]
    ELSE [err |-> OK, writes |-> Put(writes, key, value)]

(* english_auction/contract.go.go StartAuction: the result of              *)
(* storeResource (line 121) is dropped, that of storeAuction (line 123)    *)
(* is returned.                                                            *)
EngB_StartAuctionOn(broken, s, resourceID, duration, t) ==
    LET run == EngB_StartAuction(s, resourceID, duration, t)
        auctionKey == EngB_AuctionKey(resourceID) IN
    IF run.err # OK THEN run
    ELSE LET stored == PutState(broken, NoWrites, resourceID,
                                run.writes[resourceID])
         IN PutState(broken, stored.writes, auctionKey, run.writes[auctionKey])

(* EndAuction: the results of storeAuction (line 209) and storeResource    *)
(* (line 222) are dropped, that of the last storeAuction (line 224) is     *)
(* returned.                                                               *)
EngB_EndAuctionOn(broken, s, resourceID, t) ==
    LET run == EngB_EndAuction(s, resourceID, t)
        auctionID == EngB_AuctionKey(resourceID) IN
    IF run.err # OK THEN run
    ELSE LET first == PutState(broken, NoWrites, auctionID,
                               run.writes[auctionID])
             second == PutState(broken, first.writes, resourceID,
                                run.writes[resourceID])
         IN PutState(broken, second.writes, auctionID, run.writes[auctionID])

(* second_price_auction_optimized batchStore: PutState for every entry of  *)
(* the updates map, in the order the map iteration happens to take, and    *)
(* return at the first error.                                              *)
RECURSIVE SPO_batchStoreFrom(_, _, _, _)
SPO_batchStoreFrom(broken, updates, done, writes) ==
    IF done = DOMAIN updates THEN {Success(writes)}
    ELSE UNION {
        LET put == PutState(broken, writes, key, updates[key]) IN
        IF put.err # OK THEN {put}
        ELSE SPO_batchStoreFrom(broken, updates, done \cup {key}, put.writes)
        : key \in DOMAIN updates \ done}

SPO_batchStore(broken, updates) ==
    SPO_batchStoreFrom(broken, updates, {}, NoWrites)

SPO_StartAuctionOn(broken, s, resourceID, duration, t) ==
    LET run == SPO_StartAuction(s, resourceID, duration, t) IN
    IF run.err # OK THEN {run} ELSE SPO_batchStore(broken, run.writes)

SPO_EndAuctionOn(broken, s, resourceID, t) ==
    UNION {IF run.err # OK THEN {run} ELSE SPO_batchStore(broken, run.writes) :
           run \in SPO_EndAuction(s, resourceID, t)}

(* StartAuction and EndAuction of the two chaincodes under write failures. *)
TxStartOn(broken, i, s, id, d, t) ==
    IF i = "englishB" THEN {EngB_StartAuctionOn(broken, s, id, d, t)}
    ELSE SPO_StartAuctionOn(broken, s, id, d, t)

TxEndOn(broken, i, s, id, t) ==
    IF i = "englishB" THEN {EngB_EndAuctionOn(broken, s, id, t)}
    ELSE SPO_EndAuctionOn(broken, s, id, t)

(* GetResource of the flat-key chaincodes returns the stored bytes. *)
Flat_GetResource(s, resourceID) ==
    IF ~Exists(s, resourceID) THEN [err |-> NotFound, out |-> <<>>]
    ELSE [err |-> OK, out |-> <<s[resourceID]>>]

QueryResource(i, s, id) ==
    CASE i = "secondPriceOpt" -> SPO_GetResource(s, id)
      [] i = "englishOpt" -> EngO_GetResource(s, id)
      [] OTHER -> Flat_GetResource(s, id)

QueryAuction(i, s, id, t) ==
    CASE i = "legacy" -> Legacy_GetAuction(s, id)
      [] i = "englishA" -> EngA_GetAuction(s, id)
      [] i = "englishB" -> EngB_GetAuction(s, id)
      [] i = "englishOpt" -> EngO_GetAuction(s, id)
      [] i = "secondPrice" -> SP_GetAuction(s, id, t)
      [] i = "secondPriceOpt" -> SPO_GetAuction(s, id, t)
      [] i = "secondPriceOptFlat" -> SPF_GetAuction(s, id, t)

(* ------------------------------ listings ------------------------------- *)
(* The world state iterates its keys in byte order.  ByteOrder lists the   *)
(* plain strings of the model in that order; a composite key is U+0000,    *)
(* the object type, U+0000, the attribute, U+0000, so the composite keys   *)
(* of one object type follow the order of their attributes.                *)
ByteOrder ==
    <<"a", "auction:a", "auction:auction:r", "auction:b", "auction:c",
      "auction:d", "auction:e", "auction:r", "b", "c", "d", "e", "r">>

CompositeOrder(objectType) ==
    [n \in 1..Len(ByteOrder) |-> createCompositeKey(objectType, ByteOrder[n])]

(* stub.GetStateByRange("", ""): every simple key of the world state, in   *)
(* key order, whatever record it holds; composite keys are left out.       *)
GetStateByRange(s) ==
    SelectSeq(ByteOrder, LAMBDA k : k \in DOMAIN s)

(* stub.GetStateByPartialCompositeKey(objectType, []): the composite keys  *)
(* of that object type, in key order.                                      *)
GetStateByPartialCompositeKey(s, objectType) ==
    SelectSeq(CompositeOrder(objectType), LAMBDA k : k \in DOMAIN s)

(* The remainder of a scan that starts at the bookmark; the empty bookmark *)
(* starts at the first key.                                                *)
RECURSIVE FromBookmark(_, _)
FromBookmark(keys, bookmark) ==
    IF bookmark = "" \/ keys = <<>> \/ Head(keys) = bookmark THEN keys
    ELSE FromBookmark(Tail(keys), bookmark)

(* A bookmark that steps over the key the next page should start with. *)
BookmarkSkipsOne(rest, pageSize) ==
    IF Len(rest) > pageSize + 1 THEN rest[pageSize + 2] ELSE ""

(* The bookmark of a page is the key that follows its last entry, or ""    *)
(* when the scan is exhausted.                                             *)
NextBookmark(rest, pageSize) ==
    IF Len(rest) > pageSize THEN rest[pageSize + 1] ELSE ""

(* stub.GetStateByPartialCompositeKeyWithPagination(objectType, [],        *)
(* pageSize, bookmark): at most pageSize keys from the bookmark on.        *)
GetStateByPartialCompositeKeyWithPagination(s, objectType, pageSize, bookmark) ==
    LET rest == FromBookmark(GetStateByPartialCompositeKey(s, objectType),
                             bookmark)
    IN [keys |-> SubSeq(rest, 1, IF Len(rest) > pageSize THEN pageSize
                                 ELSE Len(rest)),
        bookmark |-> NextBookmark(rest, pageSize)]

(* stub.SplitCompositeKey, the last attribute of the key. *)
SplitCompositeKey(key) ==
    CHOOSE id \in ResourceIDs \cup MarketIDs :
        \E ty \in {resourceObjectType, auctionObjectType} :
            createCompositeKey(ty, id) = key

(* The resources left in the order of the scan. *)
ScanOrder(resources) == {resources}

(* sort.Slice with less(i,j) = resources[i].Price < resources[j].Price:    *)
(* a permutation in ascending price order; equal prices come in any order. *)
RECURSIVE SortByPrice(_)
SortByPrice(resources) ==
    IF resources = <<>> THEN {<<>>}
    ELSE UNION {
        {<<resources[n]>> \o rest :
            rest \in SortByPrice([m \in 1..(Len(resources) - 1) |->
                        IF m < n THEN resources[m] ELSE resources[m + 1]])} :
        n \in {m \in 1..Len(resources) :
                  \A k \in 1..Len(resources) :
                      resources[m].price <= resources[k].price}}

(* GetMeritOrder of the flat-key chaincodes: every record of the range     *)
(* scan is decoded as an EnergyResource.                                   *)
Flat_GetMeritOrder(s) ==
    LET results == GetStateByRange(s)
        resources == [n \in 1..Len(results) |-> UnmarshalResource(s[results[n]])]
    IN {[err |-> OK, out |-> sorted] : sorted \in SortByPrice(resources)}

(* GetMeritOrder of the composite-key chaincodes. *)
SPO_GetMeritOrder(s) ==
    LET results == GetStateByPartialCompositeKey(s, resourceObjectType)
        resources == [n \in 1..Len(results) |-> UnmarshalResource(s[results[n]])]
    IN {[err |-> OK, out |-> sorted] : sorted \in SortByPrice(resources)}

(* GetMeritOrderPaginated: ids are the resourceIDs it fetches, in order.   *)
SPO_GetMeritOrderPaginated(s, pageSize, bookmark) ==
    LET page == GetStateByPartialCompositeKeyWithPagination(
                    s, resourceObjectType, pageSize, bookmark)
        ids == [n \in 1..Len(page.keys) |-> SplitCompositeKey(page.keys[n])]
    IN IF \E n \in 1..Len(ids) :
             ~Exists(s, createCompositeKey(resourceObjectType, ids[n]))
       THEN [err |-> NotFound, ids |-> <<>>, out |-> <<>>, bookmark |-> ""]
       ELSE [err |-> OK, ids |-> ids,
             out |-> [n \in 1..Len(ids) |-> UnmarshalResource(
                        s[createCompositeKey(resourceObjectType, ids[n])])],
             bookmark |-> page.bookmark]

(* The chaincodes that offer GetMeritOrder. *)
MeritImpls == Impls \ {"legacy"}

(* The listing machine runs a flat-key chaincode of each auction kind and  *)
(* the two composite-key chaincodes.                                       *)
MarketImpls == {"englishB", "secondPrice", "englishOpt", "secondPriceOpt"}

QueryMeritOrder(i, s) ==
    IF i \in {"secondPriceOpt", "englishOpt"} THEN SPO_GetMeritOrder(s)
    ELSE Flat_GetMeritOrder(s)

(* A caller that pages through the listing: it starts with the bookmark    *)
(* given and passes each returned bookmark on until "" comes back.         *)
RECURSIVE PageThrough(_, _, _)
PageThrough(s, pageSize, bookmark) ==
    LET page == SPO_GetMeritOrderPaginated(s, pageSize, bookmark)
    IN IF page.err # OK \/ page.bookmark = "" THEN <<page>>
       ELSE <<page>> \o PageThrough(s, pageSize, page.bookmark)

(* --------------------------- reading the state ------------------------- *)
HasResource(i, s, id) ==
    /\ Exists(s, ResourceKey(i, id))
    /\ "price" \in DOMAIN s[ResourceKey(i, id)]

ResourceOf(i, s, id) == UnmarshalResource(s[ResourceKey(i, id)])

HasAuction(i, s, id) == Exists(s, AuctionKey(i, id))

(* The auction record an invocation on id decodes. *)
AuctionOf(i, s, id) ==
    IF i \in SecondPriceImpls
    THEN UnmarshalAuction(s[AuctionKey(i, id)])
    ELSE UnmarshalEnglish(s[AuctionKey(i, id)])

IsActive(i, s, id) == HasAuction(i, s, id) /\ AuctionOf(i, s, id).status

Expired(i, s, id, t) == AuctionOf(i, s, id).deadline < t

(* The world state after an invocation with outcome res. *)
PostStore(s, res) == IF res.err = OK THEN Apply(s, res.writes) ELSE s

(* The auction of id has been closed: an auction record is stored for it   *)
(* with isActive = false.                                                  *)
Closed(i, s, id) ==
    /\ HasAuction(i, s, id)
    /\ "deadline" \in DOMAIN s[AuctionKey(i, id)]
    /\ ~AuctionOf(i, s, id).status

(* The bid data an invocation on id reads from the auction record. *)
BidData(i, s, id) ==
    IF i \in SecondPriceImpls
    THEN <<AuctionOf(i, s, id).bids, AuctionOf(i, s, id).winnerID,
           AuctionOf(i, s, id).winnerPrice>>
    ELSE <<AuctionOf(i, s, id).highestBid, AuctionOf(i, s, id).highestBidder>>

(* ------------------------------ history -------------------------------- *)
(* settlement[id] remembers the bids, winnerID and winnerPrice the         *)
(* Second-Price auction of id was closed with the last time it was closed  *)
(* (<<>> while it never was).  It is not part of the ledger: it records    *)
(* what a client saw at settlement.                                        *)
NeverSettled == <<>>

SettledAfter(i, s, post, old) ==
    [id \in ResourceIDs |->
        IF i \in SecondPriceImpls /\ IsActive(i, s, id) /\ Closed(i, post, id)
        THEN <<BidData(i, post, id)>>
        ELSE old[id]]

Call(op, id) == [op |-> op, id |-> id, err |-> OK]

(* The bids recorded in the whole world state. *)
RECURSIVE SumBids(_, _)
SumBids(s, keys) ==
    IF keys = {} THEN 0
    ELSE LET k == CHOOSE x \in keys : TRUE IN
         Len(UnmarshalAuction(s[k]).bids) + SumBids(s, keys \ {k})

TotalBids(s) == SumBids(s, DOMAIN s)

(* Invocations that do not overlap need no arbitration: the runtime state  *)
(* stays idle.                                                             *)
Idle ==
    /\ pending = {}
    /\ versions = NoWrites
    /\ committed = <<>>
    /\ validating = TRUE

Init ==
    /\ impl \in Impls
    /\ store = NoWrites
    /\ now = 0
    /\ last = Call("none", "")
    /\ settlement = [id \in ResourceIDs |-> NeverSettled]
    /\ Idle

Commit(res, call) ==
    /\ store' = IF res.err = OK THEN Apply(store, res.writes) ELSE store
    /\ last' = [call EXCEPT !.err = res.err]
    /\ settlement' = SettledAfter(impl, store, store', settlement)
    /\ UNCHANGED <<impl, now, runtime>>

(* The transaction time advances between invocations. *)
Tick ==
    /\ now < MaxTime
    /\ now' = now + 1
    /\ last' = Call("Tick", "")
    /\ UNCHANGED <<impl, store, settlement, runtime>>

SubmitEnergyResource ==
    \E id \in ResourceIDs, v \in Volumes, p \in Prices, ty \in Types :
       \E res \in TxSubmit(impl, store, id, v, p, ty) :
          Commit(res, Call("SubmitEnergyResource", id))

StartAuction ==
    \E auctionID \in ResourceIDs, id \in ResourceIDs, d \in Durations :
       \E res \in TxStart(impl, store, auctionID, id, d, now) :
          Commit(res, Call("StartAuction", IF impl = "legacy" THEN auctionID ELSE id))

Bid ==
    \E id \in ResourceIDs, a \in Amounts, c \in Bidders :
       /\ TotalBids(store) < MaxBids
       /\ \E res \in TxBid(impl, store, id, a, c, now) :
             Commit(res, Call("Bid", id))

EndAuction ==
    \E id \in ResourceIDs :
       \E res \in TxEnd(impl, store, id, now) :
          Commit(res, Call("EndAuction", id))

(* An eager expiry: the read stores the auction closed once the deadline   *)
(* is reached.                                                             *)
ClosesOnRead(i, s, id, t) ==
    IF IsActive(i, s, id) /\ AuctionOf(i, s, id).deadline <= t
    THEN Put(NoWrites, AuctionKey(i, id),
             [s[AuctionKey(i, id)] EXCEPT !.status = FALSE])
    ELSE NoWrites

(* GetAuction blanks the bids in its own copy of the record and calls no   *)
(* PutState: the write set of the invocation is empty.                     *)
GetAuctionWrites(i, s, id, t) == NoWrites

GetAuction ==
    \E id \in ResourceIDs :
       /\ last' = [Call("GetAuction", id) EXCEPT
                     !.err = QueryAuction(impl, store, id, now).err]
       /\ store' = Apply(store, GetAuctionWrites(impl, store, id, now))
       /\ UNCHANGED <<impl, now, settlement, runtime>>

Next ==
    \/ Tick
    \/ SubmitEnergyResource
    \/ StartAuction
    \/ Bid
    \/ EndAuction
    \/ GetAuction

Spec == Init /\ [][Next]_vars

(* ------------------------- the listing machine ------------------------- *)
(* The chaincodes with a merit-order listing, fed with resources of        *)
(* several prices and then queried.                                        *)
AuctionCount(s) ==
    Cardinality({id \in MarketIDs : Exists(s, AuctionKey(impl, id))})

MarketInit ==
    /\ impl \in MarketImpls
    /\ store = NoWrites
    /\ now = 0
    /\ last = Call("none", "")
    /\ settlement = [id \in ResourceIDs |-> NeverSettled]
    /\ Idle

MarketSubmit ==
    \E id \in MarketIDs, v \in Volumes, p \in MarketPrices, ty \in Types :
       \E res \in TxSubmit(impl, store, id, v, p, ty) :
          Commit(res, Call("SubmitEnergyResource", id))

MarketStart ==
    \E id \in MarketIDs, d \in Durations :
       /\ AuctionCount(store) < MaxAuctions
       /\ \E res \in TxStart(impl, store, id, id, d, now) :
             Commit(res, Call("StartAuction", id))

GetResource ==
    \E id \in MarketIDs :
       /\ last' = [Call("GetResource", id) EXCEPT
                     !.err = QueryResource(impl, store, id).err]
       /\ UNCHANGED <<impl, store, now, settlement, runtime>>

GetMeritOrder ==
    \E res \in QueryMeritOrder(impl, store) :
       /\ last' = [Call("GetMeritOrder", "") EXCEPT !.err = res.err]
       /\ UNCHANGED <<impl, store, now, settlement, runtime>>

(* The bookmark passed in is "" or one that an earlier page returned. *)
GetMeritOrderPaginated ==
    \E pageSize \in PageSizes :
       \E n \in 1..Len(PageThrough(store, pageSize, "")) :
          LET bookmark == IF n = 1 THEN ""
                          ELSE PageThrough(store, pageSize, "")[n - 1].bookmark
          IN /\ impl = "secondPriceOpt"
             /\ last' = [Call("GetMeritOrderPaginated", bookmark) EXCEPT
                     !.err = SPO_GetMeritOrderPaginated(
                                 store, pageSize, bookmark).err]
             /\ UNCHANGED <<impl, store, now, settlement, runtime>>

MarketNext ==
    \/ MarketSubmit
    \/ MarketStart
    \/ GetResource
    \/ GetMeritOrder
    \/ GetMeritOrderPaginated

MarketSpec == MarketInit /\ [][MarketNext]_vars

(* ---------------------- overlapping transactions ----------------------- *)
(* An invocation is simulated on the committed world state: it reads keys  *)
(* at their committed versions and collects a write set.  Later the        *)
(* transaction is committed: a validating runtime aborts it when a key it  *)
(* read has been written since, a runtime that does not validate applies   *)
(* the write set whatever happened meanwhile (the last writer wins).       *)
(* Simulations overlap: several may read the same state before any of      *)
(* them is committed.                                                      *)
RaceImpls == {"englishA", "englishB", "secondPrice", "secondPriceOpt"}

(* The one resource the overlapping transactions are about. *)
RaceID == "r"

Conflict == "Conflict"

(* The keys Bid and EndAuction read: the auction and its resource. *)
ReadSet(i, id) == {ResourceKey(i, id), AuctionKey(i, id)}

VersionOf(vers, key) == IF key \in DOMAIN vers THEN vers[key] ELSE 0

(* Every key read still has the version that was read. *)
ReadsFresh(tx, vers) ==
    \A k \in DOMAIN tx.reads : VersionOf(vers, k) = tx.reads[k]

(* A runtime that never validates. *)
NeverValidates(validates, tx, vers) == TRUE

(* A runtime that validates in either mode. *)
AlwaysValidates(validates, tx, vers) == ReadsFresh(tx, vers)

(* The chaincode takes no lock and keeps no version of its own: whether a  *)
(* simulated transaction commits is the runtime's decision alone.          *)
CanCommit(validates, tx, vers) == validates => ReadsFresh(tx, vers)

(* The committed versions after a write set is applied. *)
Bump(vers, writes) ==
    [k \in DOMAIN vers \cup DOMAIN writes |->
        IF k \in DOMAIN writes THEN VersionOf(vers, k) + 1 ELSE vers[k]]

(* The ledger a commit of tx leaves. *)
CommitOf(validates, tx, s, vers) ==
    IF CanCommit(validates, tx, vers) THEN Apply(s, tx.res.writes) ELSE s

(* The ledger on which the transactions overlap: the resource submitted    *)
(* and its auction started at time 0, as SubmitEnergyResource and          *)
(* StartAuction leave it.                                                  *)
Opened(i) ==
    LET submitted ==
            PostStore(NoWrites,
                CHOOSE res \in TxSubmit(i, NoWrites, RaceID, 1, 1, "Generation") :
                    TRUE)
    IN PostStore(submitted,
           CHOOSE res \in TxStart(i, submitted, RaceID, RaceID, MaxDuration, 0) :
               TRUE)

RaceInit ==
    /\ impl \in RaceImpls
    /\ validating \in BOOLEAN
    /\ store = Opened(impl)
    /\ versions = [k \in DOMAIN store |-> 1]
    /\ pending = {}
    /\ committed = <<>>
    /\ now = 0
    /\ last = Call("StartAuction", RaceID)
    /\ settlement = [id \in ResourceIDs |-> NeverSettled]

Transaction(op, amount, bidder, res) ==
    [op |-> op, id |-> RaceID, amount |-> amount, bidder |-> bidder,
     time |-> now,
     reads |-> [k \in ReadSet(impl, RaceID) |-> VersionOf(versions, k)],
     res |-> res]

(* Only invocations that return no error are sent on for commit. *)
Simulate(tx) ==
    /\ Cardinality(pending) + Len(committed) < MaxTx
    /\ tx.res.err = OK
    /\ tx \notin pending
    /\ pending' = pending \cup {tx}
    /\ last' = Call("Simulate" \o tx.op, tx.id)
    /\ UNCHANGED <<impl, store, now, settlement, versions, committed,
                   validating>>

SimulateBid ==
    \E a \in Amounts, c \in Bidders :
       \E res \in TxBid(impl, store, RaceID, a, c, now) :
          Simulate(Transaction("Bid", a, c, res))

SimulateEndAuction ==
    \E res \in TxEnd(impl, store, RaceID, now) :
       Simulate(Transaction("EndAuction", 0, "", res))

CommitTx ==
    \E tx \in pending :
       /\ pending' = pending \ {tx}
       /\ store' = CommitOf(validating, tx, store, versions)
       /\ IF CanCommit(validating, tx, versions)
          THEN /\ versions' = Bump(versions, tx.res.writes)
               /\ committed' = Append(committed, tx)
               /\ last' = Call(tx.op, tx.id)
          ELSE /\ UNCHANGED <<versions, committed>>
               /\ last' = [Call(tx.op, tx.id) EXCEPT !.err = Conflict]
       /\ settlement' = SettledAfter(impl, store, store', settlement)
       /\ UNCHANGED <<impl, now, validating>>

RaceNext ==
    \/ Tick
    \/ SimulateBid
    \/ SimulateEndAuction
    \/ CommitTx

RaceSpec == RaceInit /\ [][RaceNext]_vars

(* ------------------------------- claims -------------------------------- *)

(* C1: in every reachable state of the Second-Price chaincode, every       *)
(* stored resource has auctionStatus = true iff an auction record for it    *)
(* exists with isActive = true.                                            *)
C1_StatusIffActive ==
    impl = "secondPrice" =>
        \A id \in ResourceIDs :
            HasResource(impl, store, id) =>
                (ResourceOf(impl, store, id).auctionStatus
                    <=> IsActive(impl, store, id))

C2_BidIncreases ==
    impl = "englishA" =>
        \A id \in ResourceIDs, a \in Amounts, c \in Bidders :
            IsActive(impl, store, id) =>
                \A res \in TxBid(impl, store, id, a, c, now) :
                    LET old == AuctionOf(impl, store, id)
                        new == AuctionOf(impl, PostStore(store, res), id)
                    IN /\ \/ /\ new.highestBid = old.highestBid
                             /\ new.highestBidder = old.highestBidder
                          \/ /\ new.highestBid = a
                             /\ a > old.highestBid
                       /\ a <= old.highestBid =>
                             /\ new.highestBid = old.highestBid
                             /\ new.highestBidder = old.highestBidder
                       /\ (a <= old.highestBid /\ ~Expired(impl, store, id, now)) =>
                             /\ res.err = InvalidBid
                             /\ res.writes = NoWrites

(* C2 amended, the lifetime part: while an English auction stays active    *)
(* no step of any operation lowers its highestBid.                         *)
C2_NeverDecreases ==
    [][impl = "englishA" =>
          \A id \in ResourceIDs :
              (IsActive(impl, store, id) /\ IsActive(impl, store', id)) =>
                  AuctionOf(impl, store', id).highestBid
                      >= AuctionOf(impl, store, id).highestBid]_vars

ReserveKey(i, s, id) ==
    IF i = "legacy" THEN AuctionOf(i, s, id).resourceID ELSE ResourceKey(i, id)

(* C3: an English Bid on an active, unexpired auction is accepted only if  *)
(* amount > resource.price and amount > highestBid; on acceptance          *)
(* highestBid = amount and highestBidder = caller; otherwise it fails with *)
(* InvalidBid.                                                             *)
C3_EnglishAcceptance ==
    impl \in {"englishB", "legacy"} =>
        \A id \in ResourceIDs, a \in Amounts, c \in Bidders :
            (/\ IsActive(impl, store, id)
             /\ ~Expired(impl, store, id, now)
             /\ Exists(store, ReserveKey(impl, store, id))
             /\ "price" \in DOMAIN store[ReserveKey(impl, store, id)]) =>
                \A res \in TxBid(impl, store, id, a, c, now) :
                    LET old == AuctionOf(impl, store, id)
                        new == AuctionOf(impl, PostStore(store, res), id)
                        price == store[ReserveKey(impl, store, id)].price
                    IN IF a > price /\ a > old.highestBid
                       THEN /\ res.err = OK
                            /\ new.highestBid = a
                            /\ new.highestBidder = c
                       ELSE res.err = InvalidBid

(* The bid sequence has a bid of the highest price by winnerID, and        *)
(* winnerPrice is the highest price among the other bids (the bid's own    *)
(* price when it is the only one).                                         *)
IsSecondPriceOutcome(bids, winnerID, winnerPrice) ==
    \E k \in 1..Len(bids) :
        /\ bids[k].bidder = winnerID
        /\ \A j \in 1..Len(bids) : bids[j].bidPrice <= bids[k].bidPrice
        /\ IF Len(bids) = 1
           THEN winnerPrice = bids[k].bidPrice
           ELSE /\ \E j \in 1..Len(bids) \ {k} : winnerPrice = bids[j].bidPrice
                /\ \A j \in 1..Len(bids) \ {k} : bids[j].bidPrice <= winnerPrice

(* C4: Second-Price EndAuction on an expired active auction with at least  *)
(* one bid succeeds and sets winnerID to the bidder of a highest-priced    *)
(* bid and winnerPrice to the second-highest price (the single bid's own   *)
(* price when there is exactly one).                                       *)
C4_SecondPriceSettlement ==
    impl = "secondPriceOpt" =>
        \A id \in ResourceIDs :
            (/\ IsActive(impl, store, id)
             /\ AuctionOf(impl, store, id).deadline <= now
             /\ Len(AuctionOf(impl, store, id).bids) >= 1) =>
                \A res \in TxEnd(impl, store, id, now) :
                    LET new == AuctionOf(impl, PostStore(store, res), id) IN
                    /\ res.err = OK
                    /\ IsSecondPriceOutcome(AuctionOf(impl, store, id).bids,
                                            new.winnerID, new.winnerPrice)

(* C4 witness: an auction was settled over two bids of different prices,   *)
(* the winner paying the lower one.                                        *)
C4_Witness ==
    /\ impl = "secondPriceOpt"
    /\ last.op = "EndAuction" /\ last.err = OK
    /\ LET auction == AuctionOf(impl, store, last.id) IN
       /\ ~auction.status
       /\ Len(auction.bids) = 2
       /\ auction.bids[1].bidPrice > auction.bids[2].bidPrice
       /\ auction.winnerID = auction.bids[1].bidder
       /\ auction.winnerPrice = auction.bids[2].bidPrice

(* C5: a Second-Price Bid on an active, unexpired auction fails with       *)
(* InvalidBid when amount <= resource.price and is appended to bids when   *)
(* amount > resource.price.                                                *)
C5_SecondPriceAcceptance ==
    impl \in SecondPriceImpls =>
        \A id \in ResourceIDs, a \in Amounts, c \in Bidders :
            (/\ IsActive(impl, store, id)
             /\ ~Expired(impl, store, id, now)
             /\ HasResource(impl, store, id)) =>
                \A res \in TxBid(impl, store, id, a, c, now) :
                    LET old == AuctionOf(impl, store, id)
                        new == AuctionOf(impl, PostStore(store, res), id)
                    IN IF a <= ResourceOf(impl, store, id).price
                       THEN res.err = InvalidBid
                       ELSE /\ res.err = OK
                            /\ Len(new.bids) = Len(old.bids) + 1
                            /\ SubSeq(new.bids, 1, Len(old.bids)) = old.bids
                            /\ new.bids[Len(new.bids)].bidder = c
                            /\ new.bids[Len(new.bids)].bidPrice = a

(* C6: whenever the stored Second-Price auction has isActive = true,       *)
(* GetAuction returns an empty bids list, whatever the transaction time.   *)
C6_ActiveBidsHidden ==
    impl \in SecondPriceImpls =>
        \A id \in ResourceIDs :
            IsActive(impl, store, id) =>
                QueryAuction(impl, store, id, now).out[1].bids = <<>>

(* C7: EndAuction before the deadline fails with InvalidState and writes   *)
(* nothing, EndAuction on a closed auction fails with InvalidState, and    *)
(* EndAuction succeeds only when isActive = true and now >= deadline.      *)
C7_EndAuctionGuards ==
    impl \in {"englishB", "secondPrice"} =>
        \A id \in ResourceIDs :
            \A res \in TxEnd(impl, store, id, now) :
                /\ res.err = OK =>
                      /\ IsActive(impl, store, id)
                      /\ now >= AuctionOf(impl, store, id).deadline
                /\ (IsActive(impl, store, id)
                      /\ now < AuctionOf(impl, store, id).deadline) =>
                      /\ res.err = InvalidState
                      /\ res.writes = NoWrites
                      /\ PostStore(store, res) = store
                /\ (HasAuction(impl, store, id) /\ ~IsActive(impl, store, id)) =>
                      /\ res.err = InvalidState
                      /\ PostStore(store, res) = store

(* C7 witness: EndAuction was just refused with InvalidState on an active  *)
(* auction whose deadline is still ahead.                                  *)
C7_Witness ==
    /\ impl \in {"englishB", "secondPrice"}
    /\ last.op = "EndAuction" /\ last.err = InvalidState
    /\ IsActive(impl, store, last.id)
    /\ now < AuctionOf(impl, store, last.id).deadline

(* The world states an invocation may leave. *)
PostStores(s, outcomes) == {PostStore(s, res) : res \in outcomes}

(* C8: a Bid after the deadline on a still-active auction records nothing  *)
(* and, for every amount, leaves the store in exactly the state an         *)
(* explicit EndAuction at that time would have produced.                   *)
C8_LateBidIsEndAuction ==
    impl \in {"secondPriceOpt", "englishB", "legacy"} =>
        \A id \in ResourceIDs, a \in Amounts, c \in Bidders :
            (IsActive(impl, store, id) /\ Expired(impl, store, id, now)) =>
                PostStores(store, TxBid(impl, store, id, a, c, now))
                    = PostStores(store, TxEnd(impl, store, id, now))

(* Whether settlement determined a winner. *)
HasWinner(i, auction) ==
    IF i \in SecondPriceImpls THEN Len(auction.bids) > 0
    ELSE auction.highestBidder # ""

(* C9: a successful EndAuction sets isActive and the resource's            *)
(* auctionStatus to false, sets isAvailable to false iff a winner was      *)
(* determined, and persists both the auction and the resource record.      *)
C9_EndAuctionEffect ==
    impl \in {"englishA", "secondPrice", "legacy"} =>
        \A id \in ResourceIDs :
            \A res \in TxEnd(impl, store, id, now) :
                res.err = OK =>
                    LET post == PostStore(store, res)
                        rkey == ReserveKey(impl, store, id)
                        resource == UnmarshalResource(post[rkey])
                    IN /\ ~AuctionOf(impl, post, id).status
                       /\ AuctionKey(impl, id) \in DOMAIN res.writes
                       /\ rkey \in DOMAIN res.writes
                       /\ ~resource.auctionStatus
                       /\ ~resource.isAvailable
                             <=> HasWinner(impl, AuctionOf(impl, post, id))

(* C10: EndAuction on an active auction past its deadline with no bids     *)
(* succeeds, closes it with no winner and leaves the resource available    *)
(* with auctionStatus = false.                                             *)
C10_NoBidClose ==
    impl \in {"legacy", "englishB"} =>
        \A id \in ResourceIDs :
            (/\ IsActive(impl, store, id)
             /\ AuctionOf(impl, store, id).deadline <= now
             /\ AuctionOf(impl, store, id).highestBidder = "") =>
                \A res \in TxEnd(impl, store, id, now) :
                    /\ res.err = OK
                    /\ ~AuctionOf(impl, PostStore(store, res), id).status
                    /\ AuctionOf(impl, PostStore(store, res), id).highestBidder = ""

(* The auction stored for id is closed and has a winner. *)
SettledWithWinner(i, s, id) ==
    /\ HasAuction(i, s, id)
    /\ ~AuctionOf(i, s, id).status
    /\ HasWinner(i, AuctionOf(i, s, id))

(* The record at id's resource key reads as a resource that is not         *)
(* available.                                                              *)
Unavailable(i, s, id) ==
    /\ Exists(s, ResourceKey(i, id))
    /\ ~ResourceOf(i, s, id).isAvailable

(* C11, the settlement: a resource whose auction is closed with a winner   *)
(* has isAvailable = false.                                                *)
C11_SettledIsUnavailable ==
    impl \in {"englishB", "secondPrice"} =>
        \A id \in ResourceIDs :
            SettledWithWinner(impl, store, id) => Unavailable(impl, store, id)

(* C11, later StartAuction: on a resource with isAvailable = false every   *)
(* StartAuction fails and writes nothing.                                  *)
C11_UnavailableBlocksStart ==
    impl \in {"englishB", "secondPrice"} =>
        \A id \in ResourceIDs, d \in Durations :
            Unavailable(impl, store, id) =>
                \A res \in TxStart(impl, store, id, id, d, now) :
                    /\ res.err = InvalidState
                    /\ PostStore(store, res) = store

(* C11, every later state: no step makes an unavailable resource available *)
(* again.                                                                  *)
C11_StaysUnavailable ==
    impl \in {"englishB", "secondPrice"} =>
        \A id \in ResourceIDs :
            Unavailable(impl, store, id) => Unavailable(impl, store', id)

(* C11: once an auction on a resource settles with at least one bid, the   *)
(* resource's isAvailable is false in every later state, and every later   *)
(* StartAuction on that resource fails.                                    *)
C11_SoldForGood ==
    /\ [](C11_SettledIsUnavailable /\ C11_UnavailableBlocksStart)
    /\ [][C11_StaysUnavailable]_vars

(* C11 witness: a StartAuction was just refused on a resource whose        *)
(* auction had settled with a winner.                                      *)
C11_Witness ==
    /\ impl \in {"englishB", "secondPrice"}
    /\ last.op = "StartAuction" /\ last.err = InvalidState
    /\ SettledWithWinner(impl, store, last.id)
    /\ HasResource(impl, store, last.id)
    /\ ~ResourceOf(impl, store, last.id).isAvailable

(* C12: StartAuction fails and writes nothing when the resource does not   *)
(* exist (NotFound), when its auctionStatus is true or its isAvailable is  *)
(* false (InvalidState); in particular StartAuction never replaces an      *)
(* auction that is currently active.                                       *)
C12_StartAuctionGuards ==
    impl \in {"secondPriceOpt", "legacy"} =>
        \A auctionID \in ResourceIDs, id \in ResourceIDs, d \in Durations :
            \A res \in TxStart(impl, store, auctionID, id, d, now) :
                /\ ~Exists(store, ResourceKey(impl, id)) =>
                      /\ res.err = NotFound
                      /\ res.writes = NoWrites
                /\ (/\ impl # "legacy"
                    /\ Exists(store, ResourceKey(impl, id))
                    /\ \/ ResourceOf(impl, store, id).auctionStatus
                       \/ ~ResourceOf(impl, store, id).isAvailable) =>
                      /\ res.err = InvalidState
                      /\ res.writes = NoWrites
                /\ IsActive(impl, store,
                            IF impl = "legacy" THEN auctionID ELSE id) =>
                      /\ res.err # OK
                      /\ PostStore(store, res) = store

(* C13, the calls on a closed auction: every Bid and every EndAuction on   *)
(* it fails and writes nothing.                                            *)
C13_ClosedRefuses ==
    impl \in {"englishB", "secondPrice"} =>
        \A id \in ResourceIDs :
            Closed(impl, store, id) =>
                /\ \A a \in Amounts, c \in Bidders :
                      \A res \in TxBid(impl, store, id, a, c, now) :
                          res.err # OK /\ PostStore(store, res) = store
                /\ \A res \in TxEnd(impl, store, id, now) :
                      res.err # OK /\ PostStore(store, res) = store

(* C13, the bid data: no Bid and no EndAuction step changes the bid data   *)
(* of a closed auction or reopens it.                                      *)
C13_ClosedIsFrozen ==
    (impl \in {"englishB", "secondPrice"} /\ last'.op \in {"Bid", "EndAuction"}) =>
        \A id \in ResourceIDs :
            Closed(impl, store, id) =>
                /\ HasAuction(impl, store', id)
                /\ ~AuctionOf(impl, store', id).status
                /\ BidData(impl, store', id) = BidData(impl, store, id)

(* C13: once an auction's isActive has become false the auction is         *)
(* terminal: every later Bid and EndAuction on it fails, and its bid data  *)
(* is not changed by any later Bid or EndAuction.                          *)
C13_ClosedIsTerminal ==
    /\ []C13_ClosedRefuses
    /\ [][C13_ClosedIsFrozen]_vars

(* Sequence a is an initial part of sequence b. *)
IsPrefix(a, b) == Len(a) <= Len(b) /\ SubSeq(b, 1, Len(a)) = a

(* C14, an accepted Bid: on an active auction whose deadline has not       *)
(* passed, a Bid that succeeds leaves bids equal to the previous bids      *)
(* followed by one new bid with bidder = caller, bidPrice = amount and     *)
(* timestamp = transaction time.                                           *)
C14_BidAppends ==
    impl = "secondPrice" =>
        \A id \in ResourceIDs, a \in Amounts, c \in Bidders :
            (IsActive(impl, store, id) /\ ~Expired(impl, store, id, now)) =>
                \A res \in TxBid(impl, store, id, a, c, now) :
                    res.err = OK =>
                        LET old == AuctionOf(impl, store, id).bids
                            new == AuctionOf(impl, PostStore(store, res), id).bids
                        IN /\ Len(new) = Len(old) + 1
                           /\ SubSeq(new, 1, Len(old)) = old
                           /\ new[Len(new)].bidder = c
                           /\ new[Len(new)].bidPrice = a
                           /\ new[Len(new)].timestamp = now

(* C14, no shrinking: across every step that leaves the auction active,    *)
(* the bids recorded before are an initial part of the bids recorded       *)
(* after.                                                                  *)
C14_BidsOnlyGrow ==
    impl = "secondPrice" =>
        \A id \in ResourceIDs :
            (IsActive(impl, store, id) /\ IsActive(impl, store', id)) =>
                IsPrefix(AuctionOf(impl, store, id).bids,
                         AuctionOf(impl, store', id).bids)

(* C14: while a Second-Price auction is active, each accepted Bid appends  *)
(* exactly one new bid (bidder = caller, bidPrice = amount, timestamp =    *)
(* transaction time) at the end of bids and leaves every previously        *)
(* recorded bid unchanged and in its insertion order; bids never shrinks   *)
(* while isActive.                                                         *)
C14_AppendOnly ==
    /\ []C14_BidAppends
    /\ [][C14_BidsOnlyGrow]_vars

(* C14 witness: a second bid was just appended behind a different first    *)
(* one on an auction that is still active.                                 *)
C14_Witness ==
    /\ impl = "secondPrice"
    /\ last.op = "Bid" /\ last.err = OK
    /\ IsActive(impl, store, last.id)
    /\ LET bids == AuctionOf(impl, store, last.id).bids IN
       /\ Len(bids) = 2
       /\ bids[1] # bids[2]
       /\ bids[2].timestamp = now

(* Sequence b holds the elements of sequence a, each as often, in some     *)
(* order.                                                                  *)
IsPermutation(a, b) ==
    /\ Len(a) = Len(b)
    /\ \E p \in IndexOrders(Len(a)) : \A k \in 1..Len(a) : b[k] = a[p[k]]

Descending(bids) ==
    \A j, k \in 1..Len(bids) : j < k => bids[j].bidPrice >= bids[k].bidPrice

(* C15 as stated, the freeze: once a Second-Price auction has been closed, *)
(* the stored bids, winnerID and winnerPrice are for ever the ones it was  *)
(* closed with, whatever operation follows.                                *)
C15_FrozenForEver ==
    impl = "secondPriceOpt" =>
        \A id \in ResourceIDs :
            settlement[id] # NeverSettled =>
                BidData(impl, store, id) = settlement[id][1]

(* C15 amended, the close: the step that closes an auction stores a        *)
(* permutation of the bids recorded until then, in descending price order. *)
C15_ClosedSorted ==
    impl = "secondPriceOpt" =>
        \A id \in ResourceIDs :
            (IsActive(impl, store, id) /\ Closed(impl, store', id)) =>
                /\ IsPermutation(AuctionOf(impl, store, id).bids,
                                 AuctionOf(impl, store', id).bids)
                /\ Descending(AuctionOf(impl, store', id).bids)

(* C15 amended, the freeze: while the auction stays closed its bids,       *)
(* winnerID and winnerPrice are the ones it was closed with, and an        *)
(* auction closed with at least one bid stays closed.                      *)
C15_FrozenWhileClosed ==
    impl = "secondPriceOpt" =>
        \A id \in ResourceIDs :
            settlement[id] # NeverSettled =>
                /\ Closed(impl, store, id) =>
                      BidData(impl, store, id) = settlement[id][1]
                /\ Len(settlement[id][1][1]) > 0 => Closed(impl, store, id)

(* C15 amended, the replacement: a closed auction stops being closed only  *)
(* when it had no bids and a successful StartAuction on its resource       *)
(* stores a fresh auction (no bids, no winner) in its place.               *)
C15_OnlyStartReplaces ==
    impl = "secondPriceOpt" =>
        \A id \in ResourceIDs :
            (Closed(impl, store, id) /\ ~Closed(impl, store', id)) =>
                /\ last' = Call("StartAuction", id)
                /\ BidData(impl, store, id) = <<<<>>, "", 0>>
                /\ IsActive(impl, store', id)
                /\ BidData(impl, store', id) = <<<<>>, "", 0>>

(* C15 amended: when a Second-Price auction is closed, the stored bids is  *)
(* a permutation of the bids recorded at close time in descending price    *)
(* order; bids, winnerID and winnerPrice then never change while the       *)
(* record stays closed, for ever if it closed with a bid; an auction       *)
(* closed without bids is replaced only by a successful StartAuction.      *)
C15_SettlementIsFinal ==
    /\ []C15_FrozenWhileClosed
    /\ [][C15_ClosedSorted /\ C15_OnlyStartReplaces]_vars

(* C15 witness: an auction was closed with two bids that settlement had to *)
(* reorder, and a later EndAuction on it has just been refused.            *)
C15_Witness ==
    /\ impl = "secondPriceOpt"
    /\ last.op = "EndAuction" /\ last.err = InvalidState
    /\ Closed(impl, store, last.id)
    /\ settlement[last.id] # NeverSettled
    /\ LET bids == AuctionOf(impl, store, last.id).bids IN
       /\ Len(bids) = 2
       /\ bids[1].bidPrice > bids[2].bidPrice
       /\ bids[1].timestamp > bids[2].timestamp

(* A resource record as SubmitEnergyResource stores it. *)
SubmittedResource(v, p, ty) ==
    [volume |-> v, price |-> p, type |-> ty,
     isAvailable |-> TRUE, auctionStatus |-> FALSE]

(* C16: SubmitResource with an id for which a resource record already      *)
(* exists fails with AlreadyExists and leaves the existing record, and the *)
(* whole ledger, as it was.  The record exists when the key that the       *)
(* existence check of SubmitEnergyResource reads is present.               *)
C16_DuplicateSubmit ==
    impl \in {"secondPriceOpt", "englishOpt"} =>
        \A id \in ResourceIDs, v \in Volumes, p \in Prices, ty \in Types :
            Exists(store, ResourceKey(impl, id)) =>
                \A res \in TxSubmit(impl, store, id, v, p, ty) :
                    /\ res.err = AlreadyExists
                    /\ res.writes = NoWrites
                    /\ PostStore(store, res) = store

(* C16 witness: a second SubmitResource of a stored resource was just      *)
(* refused with AlreadyExists, the resource being under auction meanwhile. *)
C16_Witness ==
    /\ impl = "secondPriceOpt"
    /\ last.op = "SubmitEnergyResource" /\ last.err = AlreadyExists
    /\ HasResource(impl, store, last.id)
    /\ ResourceOf(impl, store, last.id).auctionStatus

(* C17: in the optimized English chaincode SubmitResource with an id that  *)
(* has no resource record succeeds with a single write, at the key that    *)
(* the existence check and GetResource read, and a GetResource that        *)
(* follows returns the submitted volume, price and type with               *)
(* isAvailable = true and auctionStatus = false.                           *)
C17_SubmitThenGet ==
    impl = "englishOpt" =>
        \A id \in ResourceIDs, v \in Volumes, p \in Prices, ty \in Types :
            ~Exists(store, ResourceKey(impl, id)) =>
                \A res \in TxSubmit(impl, store, id, v, p, ty) :
                    /\ res.err = OK
                    /\ DOMAIN res.writes = {ResourceKey(impl, id)}
                    /\ LET got == QueryResource(impl, PostStore(store, res), id)
                       IN /\ got.err = OK
                          /\ got.out = <<SubmittedResource(v, p, ty)>>

(* The same records with the same multiplicities. *)
SameRecords(a, b) ==
    /\ Len(a) = Len(b)
    /\ \A n \in 1..Len(a) :
          Cardinality({k \in 1..Len(a) : a[k] = a[n]})
              = Cardinality({k \in 1..Len(b) : b[k] = a[n]})

Ascending(resources) ==
    \A m, n \in 1..Len(resources) :
        m < n => resources[m].price <= resources[n].price

(* The records that the scan of the resource keys yields, in scan order. *)
Scanned(s) ==
    LET results == GetStateByPartialCompositeKey(s, resourceObjectType)
    IN [n \in 1..Len(results) |-> UnmarshalResource(s[results[n]])]

(* C18: ListMeritOrder of the optimized Second-Price chaincode returns the *)
(* scanned resources sorted in ascending order of price (each entry's      *)
(* price is at most the next entry's), and its result is a permutation of  *)
(* the scanned records.                                                    *)
C18_MeritOrderSorted ==
    impl = "secondPriceOpt" =>
        \A res \in QueryMeritOrder(impl, store) :
            /\ res.err = OK
            /\ Ascending(res.out)
            /\ SameRecords(res.out, Scanned(store))

(* C18 witness: GetMeritOrder was just called on a ledger with an auction  *)
(* record and at least three resources that the scan yields out of price   *)
(* order.                                                                  *)
C18_Witness ==
    /\ impl = "secondPriceOpt"
    /\ last.op = "GetMeritOrder" /\ last.err = OK
    /\ Len(Scanned(store)) >= 3
    /\ ~Ascending(Scanned(store))
    /\ \E id \in MarketIDs : HasAuction(impl, store, id)

(* The resources submitted so far. *)
Submitted(i, s) == {id \in MarketIDs : HasResource(i, s, id)}

(* C19: in the flat-key English and Second-Price chaincodes ListMeritOrder *)
(* returns exactly one entry per submitted resource, each entry being the  *)
(* record of a submitted resource and none derived from a record of        *)
(* another kind, whatever auctions were started.                           *)
C19_OnlyResourcesListed ==
    impl \in {"englishB", "secondPrice"} =>
        \A res \in QueryMeritOrder(impl, store) :
            /\ res.err = OK
            /\ Len(res.out) = Cardinality(Submitted(impl, store))
            /\ \A n \in 1..Len(res.out) :
                  \E id \in Submitted(impl, store) :
                      res.out[n] = ResourceOf(impl, store, id)

(* The resourceIDs of a sequence of pages, in the order returned. *)
RECURSIVE PagedIDs(_)
PagedIDs(pages) ==
    IF pages = <<>> THEN <<>> ELSE Head(pages).ids \o PagedIDs(Tail(pages))

(* C20: in the optimized Second-Price chaincode, calling                   *)
(* ListMeritOrderPaginated with the empty cursor and then with each        *)
(* returned cursor until the empty cursor comes back returns every stored  *)
(* resource exactly once, in pages of at most pageSize entries, for every  *)
(* pageSize >= 1 and every number of resources; n > 0 resources take       *)
(* ceil(n / pageSize) pages (5 resources at page size 2 take 3).           *)
C20_PagesCoverOnce ==
    impl = "secondPriceOpt" =>
        \A pageSize \in PageSizes :
            LET pages == PageThrough(store, pageSize, "")
                ids == PagedIDs(pages)
                n == Cardinality(Submitted(impl, store))
            IN /\ \A k \in 1..Len(pages) :
                     /\ pages[k].err = OK
                     /\ Len(pages[k].out) <= pageSize
                     /\ Len(pages[k].out) = Len(pages[k].ids)
                     /\ \A m \in 1..Len(pages[k].ids) :
                           pages[k].out[m]
                               = ResourceOf(impl, store, pages[k].ids[m])
               /\ Len(ids) = n
               /\ {ids[k] : k \in 1..Len(ids)} = Submitted(impl, store)
               /\ Len(pages) = IF n = 0 THEN 1
                               ELSE (n + pageSize - 1) \div pageSize

(* C20 witness: a page after the first was just requested on a ledger of   *)
(* five resources and an auction record, where page size 2 takes 3 pages   *)
(* of 2, 2 and 1 entries.                                                  *)
C20_Witness ==
    /\ impl = "secondPriceOpt"
    /\ last.op = "GetMeritOrderPaginated" /\ last.err = OK /\ last.id # ""
    /\ Submitted(impl, store) = MarketIDs
    /\ \E id \in MarketIDs : HasAuction(impl, store, id)
    /\ LET pages == PageThrough(store, 2, "")
       IN /\ Len(pages) = 3
          /\ Len(pages[1].out) = 2 /\ Len(pages[2].out) = 2
          /\ Len(pages[3].out) = 1

(* The non-empty sets of keys, among those an invocation writes, whose     *)
(* PutState fails.                                                         *)
Breakages(run) == SUBSET (DOMAIN run.writes) \ {{}}

(* C21: when a store write issued by StartAuction or EndAuction fails, the *)
(* operation returns a StorageFailure and nothing of it is committed, so   *)
(* that never only one of the resource record and the auction record       *)
(* reflects the transition.                                                *)
C21_FailedWriteAborts ==
    impl \in {"englishB", "secondPriceOpt"} =>
        \A id \in ResourceIDs :
            /\ \A d \in Durations :
                  \A run \in TxStart(impl, store, id, id, d, now) :
                     run.err = OK =>
                        \A broken \in Breakages(run) :
                           \A res \in TxStartOn(broken, impl, store, id, d, now) :
                              /\ res.err = StorageFailure
                              /\ PostStore(store, res) = store
            /\ \A run \in TxEnd(impl, store, id, now) :
                  run.err = OK =>
                     \A broken \in Breakages(run) :
                        \A res \in TxEndOn(broken, impl, store, id, now) :
                           /\ res.err = StorageFailure
                           /\ PostStore(store, res) = store

(* The errors that report a violated precondition. *)
PreconditionErrors == {AlreadyExists, NotFound, InvalidState, InvalidBid}

(* post is s with the bid of amount a by c recorded on the auction of id   *)
(* and nothing else changed.                                               *)
BidRecorded(i, s, post, id, a, c, t) ==
    /\ HasAuction(i, s, id)
    /\ DOMAIN post = DOMAIN s
    /\ \A k \in DOMAIN s \ {AuctionKey(i, id)} : post[k] = s[k]
    /\ IF i \in SecondPriceImpls
       THEN AuctionOf(i, post, id) =
               [AuctionOf(i, s, id) EXCEPT
                   !.bids = Append(@, [resourceID |-> id, bidder |-> c,
                                       bidPrice |-> a, timestamp |-> t])]
       ELSE AuctionOf(i, post, id) =
               [AuctionOf(i, s, id) EXCEPT
                   !.highestBid = a, !.highestBidder = c]

(* C22, the failing operations: an invocation that returns AlreadyExists,  *)
(* NotFound, InvalidState or InvalidBid has no write and leaves every      *)
(* stored record as it was.                                                *)
C22_FailureWritesNothing ==
    impl \in {"englishA", "secondPrice"} =>
        \A id \in ResourceIDs :
            \A res \in
                 UNION {TxSubmit(impl, store, id, v, p, ty) :
                          v \in Volumes, p \in Prices, ty \in Types}
                 \cup UNION {TxStart(impl, store, id, id, d, now) :
                          d \in Durations}
                 \cup UNION {TxBid(impl, store, id, a, c, now) :
                          a \in Amounts, c \in Bidders}
                 \cup TxEnd(impl, store, id, now) :
               res.err \in PreconditionErrors =>
                   /\ res.writes = NoWrites
                   /\ PostStore(store, res) = store

(* C22, the unrecorded bid: a Bid either records the bid, or changes       *)
(* nothing, or leaves the ledger that a successful EndAuction on the same  *)
(* resource at the same time leaves.                                       *)
C22_UnrecordedBid ==
    impl \in {"englishA", "secondPrice"} =>
        \A id \in ResourceIDs, a \in Amounts, c \in Bidders :
            \A res \in TxBid(impl, store, id, a, c, now) :
                LET post == PostStore(store, res) IN
                \/ post = store
                \/ BidRecorded(impl, store, post, id, a, c, now)
                \/ \E end \in TxEnd(impl, store, id, now) :
                      end.err = OK /\ post = PostStore(store, end)

(* C22, the steps: no step that reports a violated precondition changes    *)
(* the ledger.                                                             *)
C22_FailedStep ==
    (impl \in {"englishA", "secondPrice"}
        /\ last'.err \in PreconditionErrors) => store' = store

(* C22: an operation that fails on a violated precondition leaves every    *)
(* stored resource and auction record unchanged, and the only state change *)
(* an unrecorded bid causes is the complete EndAuction transition of the   *)
(* lazy-expiry path.                                                       *)
C22_NoPartialState ==
    [](C22_FailureWritesNothing /\ C22_UnrecordedBid)
        /\ [][C22_FailedStep]_vars

(* C22 witness: a Second-Price Bid that came after the deadline has just   *)
(* closed an auction holding a bid, without being recorded.                *)
C22_Witness ==
    /\ impl = "secondPrice"
    /\ last.op = "Bid" /\ last.err = OK
    /\ Closed(impl, store, last.id)
    /\ Len(AuctionOf(impl, store, last.id).bids) = 1
    /\ ~ResourceOf(impl, store, last.id).isAvailable

(* A committed Bid whose bid was recorded (it did not take the lazy-expiry *)
(* path).                                                                  *)
RecordedBid(tx) ==
    /\ tx.op = "Bid"
    /\ AuctionKey(impl, tx.id) \in DOMAIN tx.res.writes
    /\ tx.res.writes[AuctionKey(impl, tx.id)].status

RecordedBids == {n \in 1..Len(committed) : RecordedBid(committed[n])}

(* The bids of txs that agree with tx in bidder, amount and time. *)
SameBid(tx, other) ==
    /\ other.bidder = tx.bidder
    /\ other.amount = tx.amount
    /\ other.time = tx.time

(* C23, English: under a validating runtime the highestBid of the auction  *)
(* is the amount of the last committed bid and exceeds the amount of every *)
(* bid committed before it.                                                *)
C23_EnglishKeepsHighest ==
    (validating /\ impl = "englishB") =>
        LET auction == AuctionOf(impl, store, RaceID) IN
        /\ RecordedBids = {} => auction.highestBid = 0
        /\ \A n \in RecordedBids :
              /\ committed[n].amount <= auction.highestBid
              /\ \A m \in RecordedBids :
                    m < n => committed[m].amount < committed[n].amount
        /\ \A n \in RecordedBids :
              (\A m \in RecordedBids : m <= n) =>
                  /\ auction.highestBid = committed[n].amount
                  /\ auction.highestBidder = committed[n].bidder

(* C23, Second-Price: under a validating runtime the bids of the auction   *)
(* hold every committed bid exactly once.                                  *)
C23_SecondPriceKeepsAll ==
    (validating /\ impl = "secondPriceOpt") =>
        LET bids == AuctionOf(impl, store, RaceID).bids IN
        /\ Len(bids) = Cardinality(RecordedBids)
        /\ \A n \in RecordedBids :
              Cardinality({k \in 1..Len(bids) :
                              /\ bids[k].bidder = committed[n].bidder
                              /\ bids[k].bidPrice = committed[n].amount
                              /\ bids[k].timestamp = committed[n].time})
                  = Cardinality({m \in RecordedBids :
                                    SameBid(committed[n], committed[m])})

(* C23: when the runtime aborts at commit every transaction whose read of  *)
(* a key is stale, no committed bid is lost however the Bid invocations    *)
(* on one auction overlap: the English highestBid strictly increases       *)
(* across commits and the Second-Price bids hold every committed bid       *)
(* exactly once.                                                           *)
C23_NoLostBid == C23_EnglishKeepsHighest /\ C23_SecondPriceKeepsAll

(* C23 witness: two overlapping Second-Price bids were committed one after *)
(* the other and a third, simulated before they were committed, has just   *)
(* been aborted.                                                           *)
C23_Witness ==
    /\ validating /\ impl = "secondPriceOpt"
    /\ last.op = "Bid" /\ last.err = Conflict
    /\ Cardinality(RecordedBids) = 2
    /\ Len(AuctionOf(impl, store, RaceID).bids) = 2

(* C24: the chaincode has no lock and no version of its own.  On a runtime *)
(* that does not validate reads, every English Bid that was accepted when  *)
(* simulated is committed whatever was committed meanwhile, and its commit *)
(* sets highestBid and highestBidder to its own amount and caller, also    *)
(* when a higher bid has been committed since it read the auction.         *)
C24_LastWriterWins ==
    (~validating /\ impl = "englishA") =>
        \A tx \in pending :
            RecordedBid(tx) =>
                LET after == CommitOf(validating, tx, store, versions) IN
                /\ AuctionOf(impl, after, RaceID).highestBid = tx.amount
                /\ AuctionOf(impl, after, RaceID).highestBidder = tx.bidder

(* C24 witness: two English bids read the same highestBid, both were       *)
(* accepted and committed, and the commit of the lower one came last: the  *)
(* higher bid is lost and highestBid went down.                            *)
C24_Witness ==
    /\ ~validating /\ impl = "englishA"
    /\ last.op = "Bid" /\ last.err = OK
    /\ Len(committed) = 2
    /\ RecordedBid(committed[1]) /\ RecordedBid(committed[2])
    /\ committed[1].reads = committed[2].reads
    /\ committed[1].amount > committed[2].amount
    /\ AuctionOf(impl, store, RaceID).highestBid = committed[2].amount

(* The record at the auction key of id is an auction record. *)
IsAuctionRecord(i, s, id) ==
    HasAuction(i, s, id) /\ "deadline" \in DOMAIN s[AuctionKey(i, id)]

(* C25, creation: the auction a successful StartAuction stores has the     *)
(* transaction time plus the given duration as its deadline.               *)
C25_DeadlineSet ==
    impl \in {"secondPrice", "englishB"} =>
        \A id \in ResourceIDs, d \in Durations :
            \A res \in TxStart(impl, store, id, id, d, now) :
                res.err = OK =>
                    /\ IsAuctionRecord(impl, PostStore(store, res), id)
                    /\ AuctionOf(impl, PostStore(store, res), id).deadline
                           = now + d

(* C25, frame: no outcome of Bid or EndAuction on an auction changes its   *)
(* deadline, and GetAuction returns it as stored.                          *)
C25_DeadlineKept ==
    impl \in {"secondPrice", "englishB"} =>
        \A id \in ResourceIDs :
            IsAuctionRecord(impl, store, id) =>
                /\ \A res \in TxEnd(impl, store, id, now) \cup
                        UNION {TxBid(impl, store, id, a, c, now) :
                                 a \in Amounts, c \in Bidders} :
                      /\ IsAuctionRecord(impl, PostStore(store, res), id)
                      /\ AuctionOf(impl, PostStore(store, res), id).deadline
                             = AuctionOf(impl, store, id).deadline
                /\ LET got == QueryAuction(impl, store, id, now) IN
                   /\ got.err = OK
                   /\ got.out[1].deadline = AuctionOf(impl, store, id).deadline

(* C25, the steps: a Bid, EndAuction or GetAuction on an auction leaves    *)
(* its deadline as it was.                                                 *)
C25_DeadlineStep ==
    (/\ impl \in {"secondPrice", "englishB"}
     /\ last'.op \in {"Bid", "EndAuction", "GetAuction"}
     /\ IsAuctionRecord(impl, store, last'.id)) =>
        /\ IsAuctionRecord(impl, store', last'.id)
        /\ AuctionOf(impl, store', last'.id).deadline
               = AuctionOf(impl, store, last'.id).deadline

(* C25: an auction's deadline is the transaction time of its StartAuction  *)
(* plus the given duration, and no Bid, EndAuction or GetAuction on that   *)
(* auction ever changes it.                                                *)
C25_DeadlineFixed ==
    [](C25_DeadlineSet /\ C25_DeadlineKept) /\ [][C25_DeadlineStep]_vars

(* C25 witness: an auction started at time 1 with duration 1 has deadline  *)
(* 2 after a bid was recorded on it and time has moved on.                 *)
C25_Witness ==
    /\ impl = "secondPrice"
    /\ last.op = "Bid" /\ last.err = OK
    /\ IsAuctionRecord(impl, store, last.id)
    /\ AuctionOf(impl, store, last.id).deadline = 2
    /\ Len(AuctionOf(impl, store, last.id).bids) = 1
    /\ now = 2

(* The position of the earliest-inserted bid among those of highest price. *)
FirstHighest(bids) ==
    CHOOSE n \in 1..Len(bids) :
        /\ \A k \in 1..Len(bids) : bids[k].bidPrice <= bids[n].bidPrice
        /\ \A k \in 1..(n - 1) : bids[k].bidPrice < bids[n].bidPrice

IsResourceRecord(i, s, id) ==
    /\ Exists(s, ResourceKey(i, id))
    /\ "price" \in DOMAIN s[ResourceKey(i, id)]

(* The fields of a resource record that SubmitEnergyResource sets for good. *)
Submission(i, s, id) ==
    LET resource == s[ResourceKey(i, id)]
    IN <<resource.volume, resource.price, resource.type>>

(* The step is a Bid made after the deadline of an active auction. *)
LazyExpiryStep ==
    /\ last'.op = "Bid"
    /\ IsActive(impl, store, last'.id)
    /\ Expired(impl, store, last'.id, now)

(* C27: once SubmitEnergyResource stored a resource record, every step     *)
(* leaves a resource record at its key, with the same volume, price and    *)
(* type; the record changes (in auctionStatus and isAvailable only) in no  *)
(* other step than a StartAuction, an EndAuction or a Bid made after the   *)
(* deadline.                                                               *)
C27_ResourceStep ==
    \A id \in ResourceIDs :
        IsResourceRecord(impl, store, id) =>
            /\ IsResourceRecord(impl, store', id)
            /\ Submission(impl, store', id) = Submission(impl, store, id)
            /\ store'[ResourceKey(impl, id)] # store[ResourceKey(impl, id)] =>
                  \/ last'.op \in {"StartAuction", "EndAuction"}
                  \/ LazyExpiryStep

C27_ResourceImmutable == [][C27_ResourceStep]_vars

(* SubmitEnergyResource accepted the identifier: a record is stored at its *)
(* resource key.                                                           *)
Accepted(i, s, id) == Exists(s, ResourceKey(i, id))

(* C28: for all identifiers i and j that SubmitEnergyResource accepted,    *)
(* the key of resource i differs from the key of the auction of j, so the  *)
(* operations on the auction of j neither read nor write the record of     *)
(* resource i at their auction key.                                        *)
C28_KeysDisjoint ==
    \A i \in ResourceIDs, j \in ResourceIDs :
        (Accepted(impl, store, i) /\ Accepted(impl, store, j)) =>
            ResourceKey(impl, i) # AuctionKey(impl, j)

(* What a settlement decides: the winner, the price and whether the        *)
(* resource of the auction is available afterwards, read from the world    *)
(* state the closing invocation leaves.                                    *)
SettlementOf(i, s, post, id) ==
    LET closed == AuctionOf(i, post, id)
        key == ResourceKey(i, AuctionOf(i, s, id).resourceID)
        available == IF Exists(post, key) /\ "isAvailable" \in DOMAIN post[key]
                     THEN post[key].isAvailable ELSE TRUE
    IN IF i \in SecondPriceImpls
       THEN <<closed.winnerID, closed.winnerPrice, available>>
       ELSE <<closed.highestBidder, closed.highestBid, available>>

(* The transaction times from the current one on. *)
LaterTimes == now..MaxTime

(* C29: two EndAuction executions on active auctions that hold the same    *)
(* bid data (Second-Price: the same bid sequence; English: the same        *)
(* highestBid and highestBidder) decide the same winner, the same price    *)
(* and the same availability of the resource, whatever their transaction   *)
(* times at or after the deadline and whatever else is stored.             *)
C29_SettlementDeterministic ==
    \A id1 \in ResourceIDs, id2 \in ResourceIDs :
        (/\ IsActive(impl, store, id1)
         /\ IsActive(impl, store, id2)
         /\ BidData(impl, store, id1) = BidData(impl, store, id2)) =>
            \A t1 \in LaterTimes, t2 \in LaterTimes :
                \A res1 \in TxEnd(impl, store, id1, t1),
                   res2 \in TxEnd(impl, store, id2, t2) :
                    (res1.err = OK /\ res2.err = OK) =>
                        SettlementOf(impl, store, PostStore(store, res1), id1)
                            = SettlementOf(impl, store, PostStore(store, res2), id2)

(* The step is a Bid on an auction whose deadline the transaction time has *)
(* reached.                                                                *)
BidAtDeadline ==
    /\ last'.op = "Bid"
    /\ HasAuction(impl, store, last'.id)
    /\ AuctionOf(impl, store, last'.id).deadline <= now

(* C30, the closing: an auction's isActive goes from true to false only in *)
(* an EndAuction invocation or in a Bid invocation whose transaction time  *)
(* has reached the deadline.                                               *)
C30_CloseStep ==
    \A id \in ResourceIDs :
        (IsActive(impl, store, id) /\ ~IsActive(impl, store', id)) =>
            \/ last'.op = "EndAuction"
            \/ BidAtDeadline

(* C30, time and reads: the passage of time and a GetAuction change no     *)
(* stored record, so an auction that is active and past its deadline is    *)
(* still active afterwards.                                                *)
C30_ReadStep ==
    last'.op \in {"Tick", "GetAuction"} =>
        /\ store' = store
        /\ \A id \in ResourceIDs :
              IsActive(impl, store, id) => IsActive(impl, store', id)

(* C30: an auction closes lazily, when an EndAuction or a late Bid touches *)
(* it, and never by the clock or by a read.                                *)
C30_LazyExpiry == [][C30_CloseStep /\ C30_ReadStep]_vars

(* C30 witness: an auction past its deadline was just read with GetAuction *)
(* after the clock had moved, and is still active.                         *)
C30_Witness ==
    /\ impl = "secondPriceOpt"
    /\ last.op = "GetAuction" /\ last.err = OK
    /\ IsActive(impl, store, last.id)
    /\ Expired(impl, store, last.id, now)

(* The bidID that Bid gives a bid: fmt.Sprintf("%s:%s:%d", ...) of the     *)
(* auction key (the resource id in the composite-key chaincode), the       *)
(* client id and the seconds of the transaction time.                      *)
BidID(i, bid) ==
    (IF i = "secondPriceOpt" THEN bid.resourceID
     ELSE "auction:" \o bid.resourceID)
        \o ":" \o bid.bidder \o ":" \o ToString(bid.timestamp)

(* C31: within one Second-Price auction the recorded bids have pairwise    *)
(* distinct bidID values, also when one bidder bids several times.         *)
C31_BidIDsDistinct ==
    impl \in SecondPriceImpls =>
        \A id \in ResourceIDs :
            HasAuction(impl, store, id) =>
                LET bids == AuctionOf(impl, store, id).bids
                IN \A m \in 1..Len(bids), n \in 1..Len(bids) :
                       m # n => BidID(impl, bids[m]) # BidID(impl, bids[n])

(* C32, StartAuction: after a StartAuction on r that succeeds, GetAuction  *)
(* on r returns the active auction record of r, with no bid yet.           *)
C32_GetAfterStart ==
    \A id \in ResourceIDs, d \in Durations :
        \A res \in TxStart(impl, store, id, id, d, now) :
            res.err = OK =>
                LET got == QueryAuction(impl, PostStore(store, res), id, now)
                IN /\ got.err = OK
                   /\ got.out[1].status
                   /\ got.out[1].resourceID = id
                   /\ got.out[1].deadline = now + d
                   /\ got.out[1].highestBid = 0
                   /\ got.out[1].highestBidder = ""

(* C32, Bid: after a Bid on r that is accepted, GetAuction on r returns    *)
(* the whole record, highestBid and highestBidder being that bid's amount  *)
(* and caller.                                                             *)
C32_GetAfterBid ==
    \A id \in ResourceIDs, a \in Amounts, c \in Bidders :
        (IsActive(impl, store, id) /\ ~Expired(impl, store, id, now)) =>
            \A res \in TxBid(impl, store, id, a, c, now) :
                res.err = OK =>
                    LET post == PostStore(store, res)
                        got == QueryAuction(impl, post, id, now)
                    IN /\ got.err = OK
                       /\ got.out = <<post[AuctionKey(impl, id)]>>
                       /\ got.out[1].highestBid = a
                       /\ got.out[1].highestBidder = c
                       /\ got.out[1].status

(* C32, the keys: storeAuction, called as StartAuction and Bid of the      *)
(* optimized English chaincode call it, writes the key that GetAuction     *)
(* reads.                                                                  *)
C32_WritesKeyRead ==
    impl = "englishOpt" =>
        \A id \in ResourceIDs :
            LET auctionKey == CreateCompositeKey(auctionObjectType, id)
                stored == EngO_storeAuction(NoWrites, auctionKey,
                              [resourceID |-> id, status |-> TRUE])
            IN /\ stored.err = OK
               /\ DOMAIN stored.writes = {auctionKey}

(* C32: for an English auction GetAuction(r) returns the record that the   *)
(* StartAuction or accepted Bid on r before it stored: the active auction  *)
(* after StartAuction, the bid's amount and caller as highestBid and       *)
(* highestBidder after Bid, the key written being the key read.            *)
C32_GetAuctionRoundTrip ==
    impl \in EnglishImpls =>
        /\ C32_GetAfterStart
        /\ C32_GetAfterBid
        /\ C32_WritesKeyRead

(* The auction of id is closed and no bid was made on it. *)
ClosedWithoutBids(i, s, id) ==
    /\ Closed(i, s, id)
    /\ ~HasWinner(i, AuctionOf(i, s, id))
    /\ i \in SecondPriceImpls => Len(AuctionOf(i, s, id).bids) = 0

(* The resource a StartAuction for the auction of id names: the first      *)
(* chaincode takes it as an argument of its own, the others start the      *)
(* auction of the resource id.                                             *)
StartedResource(i, s, id) ==
    IF i = "legacy" THEN AuctionOf(i, s, id).resourceID ELSE id

(* C33, restart: once the auction of a resource is closed with no bids, a  *)
(* new StartAuction on the resource succeeds and stores a fresh active     *)
(* auction in place of the closed one: no bid data, the new deadline.      *)
C33_RestartAfterNoBids ==
    \A id \in ResourceIDs, d \in Durations :
        ClosedWithoutBids(impl, store, id) =>
            \A res \in TxStart(impl, store, id,
                                StartedResource(impl, store, id), d, now) :
                /\ res.err = OK
                /\ LET post == PostStore(store, res)
                   IN /\ IsActive(impl, post, id)
                      /\ AuctionOf(impl, post, id).deadline = now + d
                      /\ ~HasWinner(impl, AuctionOf(impl, post, id))
                      /\ impl \in SecondPriceImpls =>
                            AuctionOf(impl, post, id).bids = <<>>

(* C33, one live instance: no StartAuction succeeds on a resource whose    *)
(* auction is still active.                                                *)
C33_NotWhileActive ==
    \A id \in ResourceIDs, d \in Durations :
        IsActive(impl, store, id) =>
            \A res \in TxStart(impl, store, id,
                                StartedResource(impl, store, id), d, now) :
                res.err # OK

(* C33: an auction closed with no bids can be started again on the same    *)
(* resource, the fresh active auction replacing the closed record, and no  *)
(* auction is started on a resource while its auction is active.           *)
C33_RestartOnlyAfterClose ==
    /\ C33_RestartAfterNoBids
    /\ C33_NotWhileActive

(* A Bid on the auction of id can still be accepted at transaction time t: *)
(* some amount of some bidder would be appended to the recorded bids.      *)
BidAcceptable(i, s, id, t) ==
    /\ IsActive(i, s, id)
    /\ \E a \in Amounts, c \in Bidders :
          \E res \in TxBid(i, s, id, a, c, t) :
              /\ res.err = OK
              /\ Len(AuctionOf(i, PostStore(s, res), id).bids)
                    = Len(AuctionOf(i, s, id).bids) + 1

(* C34: at every transaction time at which a Second-Price Bid on an        *)
(* auction can still be accepted, GetAuction on that auction returns an    *)
(* empty bids list: nobody reads the recorded bids and then still bids.    *)
C34_NoBidAfterReading ==
    impl \in SecondPriceImpls =>
        \A id \in ResourceIDs :
            BidAcceptable(impl, store, id, now) =>
                QueryAuction(impl, store, id, now).out[1].bids = <<>>

(* C35: every active auction can be closed: once the transaction time is   *)
(* at or past the deadline, EndAuction on the active auction succeeds and  *)
(* leaves it closed, whatever the number of bids, so that an EndAuction    *)
(* invoked after the deadline always takes the auction from ACTIVE to      *)
(* CLOSED.                                                                 *)
C35_ActiveCanClose ==
    \A id \in ResourceIDs :
        (IsActive(impl, store, id)
            /\ AuctionOf(impl, store, id).deadline <= now) =>
            \A res \in TxEnd(impl, store, id, now) :
                /\ res.err = OK
                /\ Closed(impl, PostStore(store, res), id)

(* The transaction closes the auction: its write set stores the auction    *)
(* with isActive = false (an EndAuction, or a Bid on its lazy-expiry path).*)
ClosesAuction(tx) ==
    /\ AuctionKey(impl, tx.id) \in DOMAIN tx.res.writes
    /\ ~tx.res.writes[AuctionKey(impl, tx.id)].status

(* C36, one of the two: a Bid and an EndAuction that read the same state   *)
(* of the auction are never both committed.                                *)
C36_AtMostOneCommits ==
    \A m \in 1..Len(committed), n \in 1..Len(committed) :
        (RecordedBid(committed[m]) /\ committed[n].op = "EndAuction") =>
            committed[m].reads # committed[n].reads

(* C36, the settlement: the bids of a closed auction hold every committed  *)
(* bid exactly once.                                                       *)
C36_SettlementComplete ==
    Closed(impl, store, RaceID) =>
        LET bids == AuctionOf(impl, store, RaceID).bids IN
        /\ Len(bids) = Cardinality(RecordedBids)
        /\ \A n \in RecordedBids :
              Cardinality({k \in 1..Len(bids) :
                              /\ bids[k].bidder = committed[n].bidder
                              /\ bids[k].bidPrice = committed[n].amount
                              /\ bids[k].timestamp = committed[n].time})
                  = Cardinality({m \in RecordedBids :
                                    SameBid(committed[n], committed[m])})

(* C36, after the close: no bid is committed after the transaction that    *)
(* closed the auction.                                                     *)
C36_NoBidAfterClose ==
    \A m \in 1..Len(committed), n \in 1..Len(committed) :
        (m < n /\ ClosesAuction(committed[m])) => ~RecordedBid(committed[n])

(* C36: under commit-time conflict detection, of a Second-Price Bid and an *)
(* EndAuction that overlap on one auction (both are enabled at a           *)
(* transaction time equal to the deadline) at most one commits from the    *)
(* same read state; the settlement of the closed auction holds every       *)
(* committed bid and no bid is committed after the close.                  *)
C36_CloseExcludesBid ==
    (validating /\ impl \in SecondPriceImpls) =>
        /\ C36_AtMostOneCommits
        /\ C36_SettlementComplete
        /\ C36_NoBidAfterClose

(* C36 witness: at the deadline a Bid and an EndAuction were simulated on  *)
(* the same state holding one committed bid; the EndAuction was committed  *)
(* and the Bid has just been aborted.                                      *)
C36_Witness ==
    /\ validating /\ impl = "secondPrice"
    /\ last.op = "Bid" /\ last.err = Conflict
    /\ now = AuctionOf(impl, store, RaceID).deadline
    /\ Closed(impl, store, RaceID)
    /\ Len(committed) = 2
    /\ RecordedBid(committed[1])
    /\ committed[2].op = "EndAuction" /\ committed[2].time = now

(* The chaincodes whose Bid closes an expired auction. *)
LazyImpls == Impls \ {"legacy"}

(* EndAuction on the auction of id would fail at transaction time t. *)
EndAuctionFails(i, s, id, t) == \A res \in TxEnd(i, s, id, t) : res.err # OK

(* C37: a Bid that arrives after the deadline on an active auction returns *)
(* no error when the EndAuction transition it performs succeeds, although  *)
(* the bid is not recorded (the store is left as an EndAuction leaves it), *)
(* and returns an error only if the EndAuction transition fails.           *)
C37_LateBidReturnsSuccess ==
    impl \in LazyImpls =>
        \A id \in ResourceIDs, a \in Amounts, c \in Bidders :
            (IsActive(impl, store, id) /\ Expired(impl, store, id, now)) =>
                \A res \in TxBid(impl, store, id, a, c, now) :
                    /\ res.err = OK =>
                          /\ res \in TxEnd(impl, store, id, now)
                          /\ Closed(impl, PostStore(store, res), id)
                    /\ res.err # OK =>
                          EndAuctionFails(impl, store, id, now)

(* The chaincodes with an English auction, the first chaincode included. *)
AscendingImpls == EnglishImpls \cup {"legacy"}

(* C38: in every reachable state of an English auction highestBidder is    *)
(* non-empty exactly when highestBid > 0, and whenever highestBidder is    *)
(* non-empty highestBid is strictly above the reserve price of the         *)
(* auction's resource.                                                     *)
C38_LeaderAboveReserve ==
    impl \in AscendingImpls =>
        \A id \in ResourceIDs :
            IsAuctionRecord(impl, store, id) =>
                LET auction == AuctionOf(impl, store, id)
                    rkey == ReserveKey(impl, store, id)
                IN /\ auction.highestBidder # "" <=> auction.highestBid > 0
                   /\ (/\ auction.highestBidder # ""
                       /\ Exists(store, rkey)
                       /\ "price" \in DOMAIN store[rkey]) =>
                         auction.highestBid > store[rkey].price

(* C39: for every closed Second-Price auction with a winner the clearing   *)
(* price is above the reserve price of the resource and at most the price  *)
(* of the winner's own bid: resource.price < winnerPrice <= winning bid.   *)
C39_ClearingPriceBounds ==
    impl \in SecondPriceImpls =>
        \A id \in ResourceIDs :
            (Closed(impl, store, id)
                /\ AuctionOf(impl, store, id).winnerID # "") =>
                LET auction == AuctionOf(impl, store, id)
                    rkey == ResourceKey(impl, auction.resourceID)
                IN /\ Len(auction.bids) > 0
                   /\ auction.bids[1].bidder = auction.winnerID
                   /\ auction.winnerPrice <= auction.bids[1].bidPrice
                   /\ (Exists(store, rkey) /\ "price" \in DOMAIN store[rkey]) =>
                         store[rkey].price < auction.winnerPrice

====
